---- MODULE Spec2Model ----
(***************************************************************************)
(* A model of the non-custodial Hedera payment service                     *)
(* (rest/server/services/hedera_service.py) and of the checkout session    *)
(* protocol that calls it.                                                 *)
(*                                                                         *)
(* Amounts.  Python integers are unbounded, TLC's are 32 bit, and a        *)
(* payment of a few hundred HBAR is more than 2^31 tinybars.  A tinybar    *)
(* amount n is therefore written as the pair <<w, f>> with                 *)
(* n = w * TINYBARS_PER_HBAR + f and 0 <= f < TINYBARS_PER_HBAR (w may be  *)
(* negative).  The pair is an exact integer, nothing is rounded.           *)
(***************************************************************************)
EXTENDS Integers, Sequences, FiniteSets, TLC

VARIABLES
  \* ---- HederaPaymentService: configuration set by __init__ ----
  merchant_account_id,        \* self.merchant_account_id
  network_name,               \* self.network_name
  \* ---- one call of process_pre_signed_payment ----
  pc,                         \* position of the call in the method body
  signed_transaction_base64,  \* argument
  expected_amount_hbar,       \* argument (whole HBAR)
  tx_bytes,                   \* local, set by step 1
  transaction,                \* local, set by step 2
  response,                   \* local, set by transaction.execute
  receipt,                    \* local, set by response.get_receipt
  outcome,                    \* the value returned or the exception raised
  steps,                      \* the steps of the body passed so far in this call
  executed,                   \* number of transaction.execute calls in this call
  \* ---- checkout sessions: store and protocol handler ----
  sessions,                   \* session id -> CheckoutSession
  inflight,                   \* session id -> the worker mutating it, or "none"
  idempotency,                \* the replies kept per (session id, idempotency key)
  req,                        \* worker -> the request it is handling
  issued,                     \* number of Update and Complete requests taken so far
  submitted,                  \* session id -> ledger submissions made for it
  last_reply,                 \* the reply sent last
  \* ---- setup.py: one run of main() and the files it works on ----
  setup_pc,                   \* position of the run in main()
  server_env,                 \* the file server/.env
  client_env,                 \* the file client/flower_shop/.env
  overwrite,                  \* local `response`: the answer to the overwrite question
  account_id,                 \* local
  private_key,                \* local
  exit_code,                  \* what main() returned
  env_before,                 \* the two files as the run found them
  rewritten,                  \* the files create_env_file wrote in this run
  \* ---- simple_happy_path_client.py: one run of main() ----
  client_pc,                  \* position of the run in main()
  ended,                      \* how the run ended
  hedera_customer_account,    \* local, from the arguments
  hedera_network,             \* local, from the arguments
  hedera_merchant_account,    \* local, from the discovery document
  supported_handlers,         \* local, from the discovery document
  checkout_data,              \* local: the body of the last checkout response
  trigger_req,                \* whether the local trigger_req is bound
  headers,                    \* local: the headers of the last request
  uuids,                      \* number of uuid4 values drawn in this run
  sent,                       \* the mutating requests sent in this run
  client_credential,          \* local `credential`: the signed payment
  client_network,             \* the network the payment was built for
  \* ---- one amount test of _validate_transaction, in tinybars ----
  expected_tinybars,          \* the amount the caller expects, as an integer
  actual_tinybars,            \* the merchant leg of the transfer
  amount_verdict,             \* "ok", or the message of the ValueError raised
  \* ---- test_hedera_payment.py: one run of main() ----
  test_pc,                    \* position of the run in main()
  test_network,               \* local network_name
  customer_account_str,       \* local
  test_transaction,           \* local transaction
  user_response,              \* local: the answer to the submit question
  test_executed,              \* number of transaction.execute calls in this run
  printed,                    \* what the run has printed
  tx_url,                     \* the explorer URL printed, "" when none
  test_exit                   \* the exit code of the run

svcVars == <<merchant_account_id, network_name>>
callVars == <<pc, signed_transaction_base64, expected_amount_hbar, tx_bytes,
              transaction, response, receipt, outcome, steps, executed>>
ckVars == <<sessions, inflight, idempotency, req, issued, submitted, last_reply>>
setupVars == <<setup_pc, server_env, client_env, overwrite, account_id, private_key,
               exit_code, env_before, rewritten>>
clientVars == <<client_pc, ended, hedera_customer_account, hedera_network,
                hedera_merchant_account, supported_handlers, checkout_data,
                trigger_req, headers, uuids, sent, client_credential, client_network>>
amountVars == <<expected_tinybars, actual_tinybars, amount_verdict>>
testVars == <<test_pc, test_network, customer_account_str, test_transaction,
              user_response, test_executed, printed, tx_url, test_exit>>
scriptVars == <<setupVars, clientVars, amountVars, testVars>>
vars == <<svcVars, callVars, ckVars, scriptVars>>

(***************************************************************************)
(* Bounds and program constants                                            *)
(***************************************************************************)
MaxHbar == 2
MaxRequests == 2
MaxSteps == 5
MaxTinybars == 30

TINYBARS_PER_HBAR == 100000000

Accounts == {"0.0.1001", "0.0.3003", "0.0.2002"}
MerchantAccounts == {"0.0.1001", "0.0.3003"}
CustomerAccount == "0.0.2002"
Networks == {"mainnet", "testnet", "previewnet", "localnet"}

None == [none |-> TRUE]

(***************************************************************************)
(* Tinybar amounts as exact two-limb integers                              *)
(***************************************************************************)
\* n tinybars for a small n relative to h whole HBAR: h * 10^8 + d, d in -1..1
Tinybars(h, d) ==
  IF d < 0 THEN <<h - 1, TINYBARS_PER_HBAR + d>> ELSE <<h, d>>

Negate(a) ==
  IF a[2] = 0 THEN <<-a[1], 0>> ELSE <<-a[1] - 1, TINYBARS_PER_HBAR - a[2]>>

\* integer comparison a < b of two tinybar amounts
TinybarsLess(a, b) == a[1] < b[1] \/ (a[1] = b[1] /\ a[2] < b[2])

\* Hbar(amount): an Hbar object from a whole number of HBAR
Hbar(amount_hbar) == [tinybars |-> <<amount_hbar, 0>>]

\* amount.to_hbar(): the Hbar object of a leg's tinybar amount
to_hbar(amount) == [tinybars |-> amount]

\* Hbar.__lt__
HbarLess(x, y) == TinybarsLess(x.tinybars, y.tinybars)

(***************************************************************************)
(* Signed transactions on the wire                                         *)
(***************************************************************************)
PayAmounts == {Tinybars(h, d) : h \in 0..MaxHbar, d \in -1..1}
DebitAmounts == {Negate(<<h, 0>>) : h \in 1..MaxHbar}

\* hbar_transfers: a dict AccountId -> amount, as the set of its items
\* (per account: no item, written <<>>, or one amount: a payment for a
\* merchant account, a debit for the customer's)
Legs ==
  {f \in [Accounts -> PayAmounts \cup DebitAmounts \cup {<<>>}] :
     \A a \in Accounts :
       \/ f[a] = <<>>
       \/ a \in MerchantAccounts /\ f[a] \in PayAmounts
       \/ a = CustomerAccount /\ f[a] \in DebitAmounts}
HbarTransfers ==
  {{<<a, f[a]>> : a \in {x \in Accounts : f[x] # <<>>}} : f \in Legs}

TransactionIds == {"0.0.2002@1700000000.000000001"}

TransferTransactions ==
  [type : {"TransferTransaction"}, hbar_transfers : HbarTransfers,
   transaction_id : TransactionIds]

OtherTransactions ==
  [type : {"AccountCreateTransaction"}, hbar_transfers : {{}},
   transaction_id : TransactionIds]

Transactions == TransferTransactions \cup OtherTransactions

\* transaction.to_bytes() and Transaction.from_bytes(tx_bytes)
to_bytes(tx) == [format |-> "protobuf", tx |-> tx]
GarbageBytes == [format |-> "garbage", tx |-> None]
from_bytes(bytes) ==
  IF bytes.format = "protobuf" THEN [ok |-> TRUE, value |-> bytes.tx]
  ELSE [ok |-> FALSE, value |-> None]

\* base64.b64encode(bytes).decode("utf-8") and base64.b64decode(text)
b64encode(bytes) == [padding |-> "ok", data |-> bytes]
BadBase64 == [padding |-> "incorrect", data |-> GarbageBytes]
b64decode(text) ==
  IF text.padding = "ok" THEN [ok |-> TRUE, value |-> text.data]
  ELSE [ok |-> FALSE, value |-> None]

\* text that does not decode, whatever was encoded
Undecodable(text) == [text EXCEPT !.padding = "incorrect"]

Credentials ==
  {b64encode(to_bytes(tx)) : tx \in Transactions}
    \cup {b64encode(GarbageBytes), BadBase64}
    \cup {Undecodable(b64encode(to_bytes(
             [type |-> "TransferTransaction",
              hbar_transfers |-> {<<"0.0.1001", <<1, 0>>>>},
              transaction_id |-> t]))) : t \in TransactionIds}

(***************************************************************************)
(* HederaPaymentService._validate_transaction                              *)
(***************************************************************************)
\* the loop of lines 157-161: the amounts of the items whose key is the
\* merchant account (a dict has at most one); empty when merchant_transfer
\* stays None
merchant_transfer_of(transfers, merchant) ==
  {x[2] : x \in {y \in transfers : y[1] = merchant}}

\* _validate_transaction with "<=" for "<": an exact payment is refused
_validate_transaction_exclusive(tx, expected, merchant) ==
  LET found == merchant_transfer_of(tx.hbar_transfers, merchant)
  IN  IF found = {}
      THEN "No transfer to merchant account"
      ELSE LET merchant_transfer == CHOOSE a \in found : TRUE
           IN  IF ~HbarLess(Hbar(expected), to_hbar(merchant_transfer))
               THEN "Insufficient amount"
               ELSE "ok"

\* _validate_transaction that looks at any leg, whoever receives it
_validate_transaction_any_recipient(tx, expected, merchant) ==
  LET found == {x[2] : x \in tx.hbar_transfers}
  IN  IF found = {}
      THEN "No transfer to merchant account"
      ELSE IF \A a \in found : HbarLess(to_hbar(a), Hbar(expected))
           THEN "Insufficient amount"
           ELSE "ok"

\* _validate_transaction without the amount test
_validate_transaction_no_amount(tx, expected, merchant) ==
  IF merchant_transfer_of(tx.hbar_transfers, merchant) = {}
  THEN "No transfer to merchant account"
  ELSE "ok"

\* "ok", or the message of the ValueError raised
_validate_transaction(tx, expected, merchant) ==
  LET found == merchant_transfer_of(tx.hbar_transfers, merchant)
  IN  IF found = {}
      THEN "No transfer to merchant account"
      ELSE LET merchant_transfer == CHOOSE a \in found : TRUE
           IN  IF HbarLess(to_hbar(merchant_transfer), Hbar(expected))
               THEN "Insufficient amount"
               ELSE "ok"

\* a kind test that lets every transaction through
any_transaction_is_transfer(tx) == TRUE

\* isinstance(transaction, TransferTransaction)
is_transfer_transaction(tx) == tx.type = "TransferTransaction"

\* the receipt test as a list of known failures: an unknown status passes
receipt_is_success_unless_known_failure(status_name) ==
  status_name \notin {"INSUFFICIENT_PAYER_BALANCE", "INVALID_SIGNATURE"}

\* the test of line 121, negated: the receipt is a success
receipt_is_success(status_name) == status_name = "SUCCESS"

\* _get_explorer_url: base_urls.get(network_name, testnet base)
base_url_of(network) ==
  IF network \in {"mainnet", "testnet", "previewnet"}
  THEN <<"https://hashscan.io/", network>>
  ELSE <<"https://hashscan.io/", "testnet">>

\* an explorer URL that is always the testnet's
_get_explorer_url_testnet(network, transaction_id) ==
  <<base_url_of("testnet"), "/transaction/", transaction_id>>

_get_explorer_url(network, transaction_id) ==
  <<base_url_of(network), "/transaction/", transaction_id>>

(***************************************************************************)
(* The ledger network, seen through transaction.execute / get_receipt      *)
(***************************************************************************)
ReceiptStatuses ==
  {"SUCCESS", "INSUFFICIENT_PAYER_BALANCE", "INVALID_SIGNATURE", "OK"}
\* receipt.timestamp: absent, or seconds and nanoseconds
Timestamps == {None, [seconds |-> 1700000003, nanos |-> 500000000]}

\* str(receipt.timestamp) if receipt.timestamp else None (the string is
\* written [str |-> text], a record as None is)
timestamp_of(timestamp) ==
  IF timestamp = None THEN None
  ELSE [str |-> ToString(timestamp.seconds) \o "." \o ToString(timestamp.nanos)]

\* what execute and get_receipt raise: the exception's type and text; `signal`
\* says what the ledger tells with it, that trying again may help
\* ("transient"), that it cannot ("permanent"), or nothing ("none")
NetworkErrors ==
  {[type |-> "PrecheckError", text |-> "BUSY", signal |-> "transient"],
   [type |-> "PrecheckError", text |-> "INVALID_SIGNATURE", signal |-> "permanent"],
   [type |-> "MaxAttemptsError", text |-> "", signal |-> "transient"],
   [type |-> "Exception", text |-> "", signal |-> "none"]}

(***************************************************************************)
(* The client's payment: create_hedera_payment and the USD -> HBAR rate    *)
(***************************************************************************)
CENTS_PER_HBAR == 5

\* total_usd = amount / 100.0; amount_hbar = total_usd / 0.05
amount_hbar_of(total_cents) == total_cents \div CENTS_PER_HBAR

\* a signed transfer of `amount` tinybars from the customer to `recipient`
signed_transfer(recipient, amount) ==
  b64encode(to_bytes(
    [type |-> "TransferTransaction",
     hbar_transfers |-> {<<CustomerAccount, Negate(amount)>>, <<recipient, amount>>},
     transaction_id |-> CHOOSE t \in TransactionIds : TRUE]))

\* create_hedera_payment: amount_tinybars = int(amount_hbar * 100_000_000)
create_hedera_payment(merchant, amount_hbar) ==
  signed_transfer(merchant, Tinybars(amount_hbar, 0))

(***************************************************************************)
(* CheckoutSession and the data of the checkout requests                   *)
(***************************************************************************)
IdSequence == <<"cs_1", "cs_2">>
SessionIds == {IdSequence[i] : i \in 1..Len(IdSequence)}
KeySequence == <<"key_a", "key_b">>
Keys == {KeySequence[i] : i \in 1..Len(KeySequence)}
WorkerSequence == <<"w1", "w2">>
Workers == {WorkerSequence[i] : i \in 1..Len(WorkerSequence)}
MutableStatuses == {"OPEN", "FULFILLMENT_PENDING", "READY"}
TerminalStatuses == {"COMPLETED", "FAILED"}

Price(item) ==
  CASE item = "bouquet_roses" -> 1000
    [] item = "pot_ceramic" -> 500

DiscountPercent(code) == IF code = "10OFF" THEN 10 ELSE 0

OptionPrice(option) == IF option = "std" THEN 300 ELSE 0

Roses == <<[item |-> "bouquet_roses", quantity |-> 1]>>
RosesAndPots ==
  <<[item |-> "bouquet_roses", quantity |-> 1], [item |-> "pot_ceramic", quantity |-> 2]>>

NoFulfillment == [method |-> FALSE, destination |-> "none", option |-> "none"]
NoOrder ==
  [present |-> FALSE, id |-> "", permalink_url |-> "", transaction_id |-> "",
   network |-> "", explorer_url |-> <<>>]
NoSession ==
  [exists |-> FALSE, id |-> "", status |-> "NONE", currency |-> "",
   line_items |-> <<>>, discounts |-> {}, fulfillment |-> NoFulfillment,
   totals |-> <<>>, order |-> NoOrder]

RECURSIVE Subtotal(_)
Subtotal(line_items) ==
  IF line_items = <<>> THEN 0
  ELSE Price(Head(line_items).item) * Head(line_items).quantity
         + Subtotal(Tail(line_items))

RECURSIVE DiscountOf(_, _)
DiscountOf(subtotal, codes) ==
  IF codes = {} THEN 0
  ELSE LET c == CHOOSE x \in codes : TRUE
       IN  (subtotal * DiscountPercent(c)) \div 100 + DiscountOf(subtotal, codes \ {c})

\* a total that discounts the fulfillment option along with the line items
TotalOfDiscountedWithOption(line_items, discounts, fulfillment) ==
  LET gross == Subtotal(line_items) + OptionPrice(fulfillment.option)
  IN  gross - DiscountOf(gross, discounts)

\* the total of a session: line items, less discounts, plus the selected
\* fulfillment option
TotalOf(line_items, discounts, fulfillment) ==
  Subtotal(line_items) - DiscountOf(Subtotal(line_items), discounts)
    + OptionPrice(fulfillment.option)

Last(seq) == seq[Len(seq)]

\* a request without a patch: a Complete, or no request at all
NoPatch ==
  [line_items |-> <<>>, currency |-> "",
   discounts |-> [present |-> FALSE, codes |-> {}],
   fulfillment |-> [present |-> FALSE, destination |-> "none", option |-> "none"]]

IdleRequest ==
  [pc |-> "idle", op |-> "", id |-> "", key |-> "", next |-> NoSession,
   patch |-> NoPatch, credential |-> BadBase64]
NoReply ==
  [op |-> "", id |-> "", key |-> "", replayed |-> FALSE, code |-> "",
   detail |-> "", session |-> NoSession]

(***************************************************************************)
(* setup.py: the .env files and what the user types                        *)
(***************************************************************************)
\* a path that does not exist, and a local that is not bound yet
Absent == [exists |-> FALSE, text |-> <<>>]
Unbound == "unbound"
\* the exit code of a run that has not returned
NotExited == -1
\* None, as the value of account_id and private_key
PyNone == "None"

\* the text create_env_file writes, by the two values it is built from
env_content(id, key) ==
  [exists |-> TRUE, text |-> <<"HEDERA_NETWORK=testnet", id, key>>]

\* the .env files a run may find: none, or one written before
OldEnvFiles == {Absent, env_content("0.0.777", "0xold")}

\* what the user types at a prompt, and input(...).strip()
TypedAnswers == {"y", " Y ", "n", "yes", ""}
TypedAccounts == {"", " 0.0.12345 "}
TypedKeys == {"", "0xabc"}
strip(text) ==
  CASE text = " Y " -> "Y"
    [] text = " 0.0.12345 " -> "0.0.12345"
    [] OTHER -> text
lower(text) == IF text = "Y" THEN "y" ELSE text

(***************************************************************************)
(* simple_happy_path_client.py: what the client sends and receives         *)
(***************************************************************************)
\* uuid.uuid4(): the n-th value drawn in a run (two draws never agree)
uuid4(n) == "uuid_" \o ToString(n)

\* headers that carry one idempotency key for every request
get_headers_fixed(n) ==
  [idempotency_key |-> uuid4(0), request_id |-> uuid4(n + 1)]

\* get_headers(), when n values have been drawn before
get_headers(n) ==
  [idempotency_key |-> uuid4(n), request_id |-> uuid4(n + 1)]

NoHeaders == [idempotency_key |-> "", request_id |-> ""]

\* customer accounts of a run: the customer's own, or the merchant's (setup.py
\* writes one account id for both roles); "" when none is configured
CustomerAccounts == {CustomerAccount, "0.0.1001", ""}

\* response.status_code
Statuses == {200, 201, 500}

\* checkout_data["fulfillment"]: no methods, or methods[0] with or without
\* destinations and with or without groups[0].options
NoMethods == [methods |-> FALSE, destinations |-> FALSE, options |-> FALSE]
FulfillmentShapes ==
  {NoMethods}
    \cup [methods : {TRUE}, destinations : BOOLEAN, options : BOOLEAN]

\* checkout_data["totals"][-1]["amount"], in cents
TotalAmounts == {900, 2100}

\* a response body: text that is not JSON, a JSON object without the
\* checkout's keys, or a checkout object with the keys main() reads
TextBody == [kind |-> "text", fulfillment |-> NoMethods, total |-> 0]
ErrorBody == [kind |-> "error", fulfillment |-> NoMethods, total |-> 0]
NoBody == [kind |-> "none", fulfillment |-> NoMethods, total |-> 0]
CheckoutBodies ==
  [kind : {"checkout"}, fulfillment : FulfillmentShapes, total : TotalAmounts]
Bodies == {TextBody, ErrorBody} \cup CheckoutBodies

\* what the server may answer: the client does not choose it
ServerReplies == [status : Statuses, body : Bodies]

\* discovery_data["payment"]["handlers"]: name and config.merchant_account_id
\* ("" when the config has none)
HandlerLists ==
  {<<>>, <<[name |-> "com.example.card", merchant_account_id |-> ""]>>,
   <<[name |-> "com.hedera.hbar", merchant_account_id |-> ""]>>}
    \cup {<<[name |-> "com.hedera.hbar", merchant_account_id |-> m]>> :
            m \in MerchantAccounts}

\* get_hedera_merchant_account: the account of the first com.hedera.hbar
\* handler, None without one
get_hedera_merchant_account(handlers) ==
  LET found == {i \in 1..Len(handlers) : handlers[i].name = "com.hedera.hbar"}
  IN  IF found = {} THEN PyNone
      ELSE handlers[CHOOSE i \in found : \A j \in found : i <= j].merchant_account_id

\* Network(network=...) of create_hedera_payment, lines 118-121
client_network_of(name) ==
  IF name = "mainnet" THEN "mainnet" ELSE "testnet"

\* a + b on tinybar amounts
Add(a, b) ==
  LET low == a[2] + b[2]
  IN  IF low >= TINYBARS_PER_HBAR
      THEN <<a[1] + b[1] + 1, low - TINYBARS_PER_HBAR>>
      ELSE <<a[1] + b[1], low>>

\* what add_hbar_transfer does with an account that has an entry already:
\* the library's choice, add the amounts or keep the later one
SameAccountRules == {"add", "replace"}

\* TransferTransaction.add_hbar_transfer on the dict hbar_transfers
add_hbar_transfer(transfers, account, amount, rule) ==
  LET old == {x \in transfers : x[1] = account}
  IN  IF old = {} THEN transfers \cup {<<account, amount>>}
      ELSE (transfers \ old)
             \cup {<<account,
                     IF rule = "add"
                     THEN Add((CHOOSE x \in old : TRUE)[2], amount)
                     ELSE amount>>}

\* lines 137-144: the transfer create_hedera_payment builds and signs
transfer_tx(customer, merchant, amount_tinybars, rule) ==
  [type |-> "TransferTransaction",
   hbar_transfers |->
     add_hbar_transfer(
       add_hbar_transfer({}, customer, Negate(amount_tinybars), rule),
       merchant, amount_tinybars, rule),
   transaction_id |-> CHOOSE t \in TransactionIds : TRUE]

(***************************************************************************)
(* HederaPaymentService.__init__ and process_pre_signed_payment, one       *)
(* action per numbered step of the method body                             *)
(***************************************************************************)
Pending ==
  [kind |-> "pending", message |-> "", status |-> "", result |-> None,
   cause |-> None]
Raise(kind, message, status) ==
  [kind |-> kind, message |-> message, status |-> status, result |-> None,
   cause |-> None]
Return(result) ==
  [kind |-> "return", message |-> "", status |-> "", result |-> result,
   cause |-> None]

\* a network error raised without the exception it was raised from
network_error_without_cause(e) == Raise("Exception", "Hedera network error", "")

\* raise Exception(f"Hedera network error: {e}") from e: the text of e is
\* part of the message, and e is the exception's __cause__
network_error(e) ==
  [kind |-> "Exception", message |-> "Hedera network error", status |-> "",
   result |-> None, cause |-> e]

Init ==
  /\ merchant_account_id \in MerchantAccounts
  /\ network_name \in Networks
  /\ pc = "idle"
  /\ signed_transaction_base64 = BadBase64
  /\ expected_amount_hbar = 0
  /\ tx_bytes = None
  /\ transaction = None
  /\ response = None
  /\ receipt = None
  /\ outcome = Pending
  /\ steps = <<>>
  /\ executed = 0
  /\ sessions = [i \in SessionIds |-> NoSession]
  /\ inflight = [i \in SessionIds |-> "none"]
  /\ idempotency = {}
  /\ req = [w \in Workers |-> IdleRequest]
  /\ issued = 0
  /\ submitted = [i \in SessionIds |-> 0]
  /\ last_reply = NoReply
  /\ setup_pc = "idle"
  /\ server_env = Absent
  /\ client_env = Absent
  /\ overwrite = Unbound
  /\ account_id = Unbound
  /\ private_key = Unbound
  /\ exit_code = NotExited
  /\ env_before = [server |-> Absent, client |-> Absent]
  /\ rewritten = {}
  /\ client_pc = "idle"
  /\ ended = "running"
  /\ hedera_customer_account = Unbound
  /\ hedera_network = Unbound
  /\ hedera_merchant_account = Unbound
  /\ supported_handlers = <<>>
  /\ checkout_data = NoBody
  /\ trigger_req = FALSE
  /\ headers = NoHeaders
  /\ uuids = 0
  /\ sent = <<>>
  /\ client_credential = None
  /\ client_network = Unbound
  /\ expected_tinybars = 0
  /\ actual_tinybars = 0
  /\ amount_verdict = "none"
  /\ test_pc = "idle"
  /\ test_network = Unbound
  /\ customer_account_str = Unbound
  /\ test_transaction = None
  /\ user_response = Unbound
  /\ test_executed = 0
  /\ printed = {}
  /\ tx_url = ""
  /\ test_exit = NotExited

\* a call that reads the configuration from the environment again
CallReconfiguring ==
  /\ pc = "idle"
  /\ \E c \in Credentials, e \in 0..MaxHbar :
       /\ signed_transaction_base64' = c
       /\ expected_amount_hbar' = e
  /\ pc' = "decode"
  /\ tx_bytes' = None
  /\ transaction' = None
  /\ response' = None
  /\ receipt' = None
  /\ outcome' = Pending
  /\ steps' = <<>>
  /\ executed' = 0
  /\ merchant_account_id' \in MerchantAccounts
  /\ network_name' \in Networks
  /\ UNCHANGED <<ckVars, scriptVars>>

\* a caller invokes process_pre_signed_payment
Call ==
  /\ pc = "idle"
  /\ \E c \in Credentials, e \in 0..MaxHbar :
       /\ signed_transaction_base64' = c
       /\ expected_amount_hbar' = e
  /\ pc' = "decode"
  /\ tx_bytes' = None
  /\ transaction' = None
  /\ response' = None
  /\ receipt' = None
  /\ outcome' = Pending
  /\ steps' = <<>>
  /\ executed' = 0
  /\ UNCHANGED <<ckVars, svcVars, scriptVars>>

\* 1. Decode transaction bytes
Decode ==
  /\ pc = "decode"
  /\ LET r == b64decode(signed_transaction_base64)
     IN  IF r.ok
         THEN /\ tx_bytes' = r.value
              /\ pc' = "parse"
              /\ steps' = Append(steps, "decode")
              /\ UNCHANGED outcome
         ELSE /\ outcome' = Raise("ValueError", "Invalid base64 encoding", "")
              /\ pc' = "done"
              /\ UNCHANGED <<tx_bytes, steps>>
  /\ UNCHANGED <<ckVars, svcVars, scriptVars, signed_transaction_base64, expected_amount_hbar,
                 transaction, response, receipt, executed>>

\* 2. Parse transaction
Parse ==
  /\ pc = "parse"
  /\ LET r == from_bytes(tx_bytes)
     IN  IF r.ok
         THEN /\ transaction' = r.value
              /\ pc' = "kind"
              /\ steps' = Append(steps, "parse")
              /\ UNCHANGED outcome
         ELSE /\ outcome' = Raise("ValueError", "Invalid transaction bytes", "")
              /\ pc' = "done"
              /\ UNCHANGED <<transaction, steps>>
  /\ UNCHANGED <<ckVars, svcVars, scriptVars, signed_transaction_base64, expected_amount_hbar,
                 tx_bytes, response, receipt, executed>>

\* 3. Validate it's a transfer transaction
CheckKind ==
  /\ pc = "kind"
  /\ IF is_transfer_transaction(transaction)
     THEN /\ pc' = "validate"
          /\ steps' = Append(steps, "kind")
          /\ UNCHANGED outcome
     ELSE /\ outcome' = Raise("ValueError", "Expected TransferTransaction", "")
          /\ pc' = "done"
          /\ UNCHANGED steps
  /\ UNCHANGED <<ckVars, svcVars, scriptVars, signed_transaction_base64, expected_amount_hbar,
                 tx_bytes, transaction, response, receipt, executed>>

\* a validator that takes the merchant's leg out of the transfers it reads
ValidateConsuming ==
  /\ pc = "validate"
  /\ LET v == _validate_transaction(transaction, expected_amount_hbar,
                                    merchant_account_id)
     IN  /\ transaction' =
              [transaction EXCEPT !.hbar_transfers =
                 {x \in @ : x[1] # merchant_account_id}]
         /\ IF v = "ok"
            THEN /\ pc' = "execute"
                 /\ steps' = Append(steps, "validate")
                 /\ UNCHANGED outcome
            ELSE /\ outcome' = Raise("ValueError", v, "")
                 /\ pc' = "done"
                 /\ UNCHANGED steps
  /\ UNCHANGED <<ckVars, svcVars, scriptVars, signed_transaction_base64, expected_amount_hbar,
                 tx_bytes, response, receipt, executed>>

\* 4. Validate transaction details
Validate ==
  /\ pc = "validate"
  /\ LET v == _validate_transaction(transaction, expected_amount_hbar,
                                    merchant_account_id)
     IN  IF v = "ok"
         THEN /\ pc' = "execute"
              /\ steps' = Append(steps, "validate")
              /\ UNCHANGED outcome
         ELSE /\ outcome' = Raise("ValueError", v, "")
              /\ pc' = "done"
              /\ UNCHANGED steps
  /\ UNCHANGED <<ckVars, svcVars, scriptVars, signed_transaction_base64, expected_amount_hbar,
                 tx_bytes, transaction, response, receipt, executed>>

\* 5. Submit to Hedera network: transaction.execute(self.client)
Execute ==
  /\ pc = "execute"
  /\ executed' = executed + 1
  /\ \/ /\ response' = [transaction_id |-> transaction.transaction_id]
        /\ pc' = "receipt"
        /\ steps' = Append(steps, "execute")
        /\ UNCHANGED outcome
     \/ /\ \E e \in NetworkErrors : outcome' = network_error(e)
        /\ pc' = "done"
        /\ UNCHANGED <<response, steps>>
  /\ UNCHANGED <<ckVars, svcVars, scriptVars, signed_transaction_base64, expected_amount_hbar,
                 tx_bytes, transaction, receipt>>

\* get_receipt that submits the transaction again when the receipt query fails
GetReceiptRetrying ==
  /\ pc = "receipt"
  /\ \/ /\ \E s \in ReceiptStatuses, t \in Timestamps :
             receipt' = [status |-> s, timestamp |-> t]
        /\ pc' = "status"
        /\ steps' = Append(steps, "receipt")
     \/ /\ pc' = "execute"
        /\ UNCHANGED <<receipt, steps>>
  /\ UNCHANGED <<ckVars, svcVars, scriptVars, signed_transaction_base64, expected_amount_hbar,
                 tx_bytes, transaction, response, executed, outcome>>

\* 5. (continued) response.get_receipt(self.client)
GetReceipt ==
  /\ pc = "receipt"
  /\ \/ /\ \E s \in ReceiptStatuses, t \in Timestamps :
             receipt' = [status |-> s, timestamp |-> t]
        /\ pc' = "status"
        /\ steps' = Append(steps, "receipt")
        /\ UNCHANGED outcome
     \/ /\ \E e \in NetworkErrors : outcome' = network_error(e)
        /\ pc' = "done"
        /\ UNCHANGED <<receipt, steps>>
  /\ UNCHANGED <<ckVars, svcVars, scriptVars, signed_transaction_base64, expected_amount_hbar,
                 tx_bytes, transaction, response, executed>>

\* a receipt test inside the try block of step 5: its exception is caught and
\* raised again as a network error
CheckReceiptInsideTry ==
  /\ pc = "status"
  /\ IF receipt_is_success(receipt.status)
     THEN /\ outcome' = Return(
                 [transaction_id |-> response.transaction_id,
                  status |-> "SUCCESS",
                  network |-> network_name,
                  timestamp |-> timestamp_of(receipt.timestamp),
                  explorer_url |->
                    _get_explorer_url(network_name, response.transaction_id)])
          /\ steps' = Append(steps, "status")
     ELSE /\ outcome' = Raise("Exception", "Hedera network error", "")
          /\ UNCHANGED steps
  /\ pc' = "done"
  /\ UNCHANGED <<ckVars, svcVars, scriptVars, signed_transaction_base64, expected_amount_hbar,
                 tx_bytes, transaction, response, receipt, executed>>

\* 6. Check receipt status, and the return statement
CheckReceipt ==
  /\ pc = "status"
  /\ IF receipt_is_success(receipt.status)
     THEN /\ outcome' = Return(
                 [transaction_id |-> response.transaction_id,
                  status |-> "SUCCESS",
                  network |-> network_name,
                  timestamp |-> timestamp_of(receipt.timestamp),
                  explorer_url |->
                    _get_explorer_url(network_name, response.transaction_id)])
          /\ steps' = Append(steps, "status")
     ELSE /\ outcome' = Raise("Exception", "Transaction failed with status",
                              receipt.status)
          /\ UNCHANGED steps
  /\ pc' = "done"
  /\ UNCHANGED <<ckVars, svcVars, scriptVars, signed_transaction_base64, expected_amount_hbar,
                 tx_bytes, transaction, response, receipt, executed>>

\* the call is over: its frame is dropped, the service waits for the next call
Finish ==
  /\ pc = "done"
  /\ pc' = "idle"
  /\ signed_transaction_base64' = BadBase64
  /\ expected_amount_hbar' = 0
  /\ tx_bytes' = None
  /\ transaction' = None
  /\ response' = None
  /\ receipt' = None
  /\ outcome' = Pending
  /\ steps' = <<>>
  /\ executed' = 0
  /\ UNCHANGED <<ckVars, svcVars, scriptVars>>

Next ==
  \/ Call
  \/ Decode
  \/ Parse
  \/ CheckKind
  \/ Validate
  \/ Execute
  \/ GetReceipt
  \/ CheckReceipt
  \/ Finish

Spec == Init /\ [][Next]_vars

(***************************************************************************)
(* CheckoutProtocolHandler over the CheckoutSessionStore.                  *)
(* A mutation of a session runs in that session's mutual-exclusion region  *)
(* (inflight): it reads the session into a working copy when it enters,    *)
(* and commits the copy when it leaves.  Complete runs the payment service *)
(* on the working copy between the two.                                    *)
(***************************************************************************)
Carts == {Roses, RosesAndPots, <<>>}
Currencies == {"USD", "EUR"}
Omitted == [present |-> FALSE, codes |-> {}]
DiscountRequests == {Omitted, [present |-> TRUE, codes |-> {"10OFF"}]}
FulfillmentRequests ==
  {[present |-> FALSE, destination |-> "none", option |-> "none"],
   [present |-> TRUE, destination |-> "none", option |-> "none"],
   [present |-> TRUE, destination |-> "addr_1", option |-> "none"],
   [present |-> TRUE, destination |-> "addr_1", option |-> "std"],
   [present |-> TRUE, destination |-> "none", option |-> "std"]}

\* the update requests explored: a full view of the line items with at most
\* one of a discount list and a fulfillment selection, a view without line
\* items, and a view in another currency
Patches ==
  {p \in [line_items : Carts, currency : Currencies,
          discounts : DiscountRequests, fulfillment : FulfillmentRequests] :
     /\ p.currency = "EUR" \/ p.line_items = <<>> =>
          /\ ~p.discounts.present
          /\ ~p.fulfillment.present
          /\ p.currency = "USD" \/ p.line_items = Roses
     /\ ~(p.discounts.present /\ p.fulfillment.present)
     /\ p.line_items = Roses => ~p.fulfillment.present}

\* the create requests explored: valid ones, one without line items, one
\* without a currency
CreateRequests ==
  {c \in [line_items : Carts, currency : {"USD", ""}] :
     c.line_items = <<>> \/ c.currency = "" =>
       (c.line_items = <<>>) # (c.currency = "")}

Reply(op, id, key, replayed, code, detail, session) ==
  [op |-> op, id |-> id, key |-> key, replayed |-> replayed, code |-> code,
   detail |-> detail, session |-> session]

\* a store that never finds a reply kept for a key
StoredNever(id, key) == {}

\* the replies kept for key `key` against session `id`
Stored(id, key) == {e \in idempotency : e.id = id /\ e.key = key}

\* the reply kept for (id, key), sent again
Replay(op, id, key) ==
  LET e == CHOOSE x \in Stored(id, key) : TRUE
  IN  Reply(op, id, key, TRUE, e.code, e.detail, e.session)

\* the store keeps the first reply of a key
Remember(reply) ==
  IF Stored(reply.id, reply.key) # {} THEN idempotency
  ELSE idempotency \cup
         {[id |-> reply.id, key |-> reply.key, op |-> reply.op, code |-> reply.code,
           detail |-> reply.detail, session |-> reply.session]}

\* a store without mutual exclusion
RegionFreeAlways(id) == TRUE

\* the session's region is free for a new mutation
RegionFree(id) == inflight[id] = "none"

\* a handler that takes every session for a mutable one
MutableAlways(s) == TRUE

\* a terminal session rejects every mutation
Mutable(s) == s.status \in MutableStatuses

ValidCreate(line_items, currency) == line_items # <<>> /\ currency # ""

\* an Update validation that does not look at the currency
ValidUpdateAnyCurrency(s, patch) == patch.line_items # <<>>

ValidUpdate(s, patch) == patch.line_items # <<>> /\ patch.currency = s.currency

\* a patch that keeps the option selected before when it selects a destination
FulfillmentKeepsOption(s, patch) ==
  IF patch.fulfillment.present
  THEN [method |-> TRUE,
        destination |-> patch.fulfillment.destination,
        option |-> IF patch.fulfillment.destination = "none" THEN "none"
                   ELSE IF patch.fulfillment.option = "none" THEN s.fulfillment.option
                   ELSE patch.fulfillment.option]
  ELSE IF patch.line_items # s.line_items
       THEN [s.fulfillment EXCEPT !.option = "none"]
       ELSE s.fulfillment

\* a patch whose option is selected, destination or not
FulfillmentTakesOption(s, patch) ==
  IF patch.fulfillment.present
  THEN [method |-> TRUE,
        destination |-> patch.fulfillment.destination,
        option |-> patch.fulfillment.option]
  ELSE IF patch.line_items # s.line_items
       THEN [s.fulfillment EXCEPT !.option = "none"]
       ELSE s.fulfillment

\* the fulfillment of the session after a patch: a destination selected
\* without an option clears the option, an option needs a destination, and
\* new line items invalidate the option computed for the old ones
Fulfillment(s, patch) ==
  IF patch.fulfillment.present
  THEN [method |-> TRUE,
        destination |-> patch.fulfillment.destination,
        option |-> IF patch.fulfillment.destination = "none" THEN "none"
                   ELSE patch.fulfillment.option]
  ELSE IF patch.line_items # s.line_items
       THEN [s.fulfillment EXCEPT !.option = "none"]
       ELSE s.fulfillment

Discounts(s, patch) ==
  IF patch.discounts.present
  THEN {c \in patch.discounts.codes : DiscountPercent(c) > 0}
  ELSE s.discounts

\* the status of a mutable session: READY once a fulfillment option is
\* selected, FULFILLMENT_PENDING while a method awaits its selection
StatusOf(fulfillment) ==
  IF fulfillment.option # "none" THEN "READY"
  ELSE IF fulfillment.method THEN "FULFILLMENT_PENDING"
  ELSE "OPEN"

\* an Update that recomputes the last snapshot in place
UpdatedInPlace(s, patch) ==
  LET f == Fulfillment(s, patch)
      d == Discounts(s, patch)
  IN  [s EXCEPT !.status = StatusOf(f),
                !.line_items = patch.line_items,
                !.discounts = d,
                !.fulfillment = f,
                !.totals = [@ EXCEPT ![Len(@)] = TotalOf(patch.line_items, d, f)]]

\* the session an accepted Update leaves: the patch applied, and one totals
\* snapshot appended
Updated(s, patch) ==
  LET f == Fulfillment(s, patch)
      d == Discounts(s, patch)
  IN  [s EXCEPT !.status = StatusOf(f),
                !.line_items = patch.line_items,
                !.discounts = d,
                !.fulfillment = f,
                !.totals = Append(s.totals, TotalOf(patch.line_items, d, f))]

\* a Create that totals the prices of the lines, whatever their quantities
CreatedIgnoringQuantity(id, line_items, currency) ==
  [exists |-> TRUE, id |-> id, status |-> "OPEN", currency |-> currency,
   line_items |-> line_items, discounts |-> {}, fulfillment |-> NoFulfillment,
   totals |-> <<Subtotal([i \in 1..Len(line_items) |->
                            [line_items[i] EXCEPT !.quantity = 1]])>>,
   order |-> NoOrder]

\* the session a valid Create makes
Created(id, line_items, currency) ==
  [exists |-> TRUE, id |-> id, status |-> "OPEN", currency |-> currency,
   line_items |-> line_items, discounts |-> {}, fulfillment |-> NoFulfillment,
   totals |-> <<TotalOf(line_items, {}, NoFulfillment)>>, order |-> NoOrder]

\* the typed settlement failure of an exception of the payment service
SettlementError(o) ==
  CASE o.message \in {"Invalid base64 encoding", "Invalid transaction bytes"}
         -> "MalformedCredential"
    [] o.message = "Expected TransferTransaction" -> "UnsupportedTransactionKind"
    [] o.message = "No transfer to merchant account" -> "RecipientMismatch"
    [] o.message = "Insufficient amount" -> "AmountTooLow"
    [] o.message = "Hedera network error" -> "NetworkSubmissionError"
    [] o.message = "Transaction failed with status" -> "SettlementRejected"
    [] o.message = "Timeout" -> "Timeout"
    [] OTHER -> "SettlementError"

\* a Complete that forgets the session when its settlement is aborted
CompletedUnlessAborted(s, o) ==
  IF o.kind = "Aborted" THEN s ELSE [s EXCEPT !.status = "FAILED"]

\* the session a Complete leaves, from the outcome of the payment service
Completed(s, o) ==
  IF o.kind = "return"
  THEN [s EXCEPT !.status = "COMPLETED",
                 !.order = [present |-> TRUE,
                            id |-> "order_of_" \o s.id,
                            permalink_url |-> "https://merchant.example/orders/" \o s.id,
                            transaction_id |-> o.result.transaction_id,
                            network |-> o.result.network,
                            explorer_url |-> o.result.explorer_url]]
  ELSE [s EXCEPT !.status = "FAILED"]

\* what the buyer may send as payment credential for a session
PaymentCredentials(s) ==
  LET h == amount_hbar_of(Last(s.totals))
  IN  {create_hedera_payment(merchant_account_id, h),
       signed_transfer(merchant_account_id, Tinybars(h, -1)),
       signed_transfer(CHOOSE a \in MerchantAccounts : a # merchant_account_id,
                       Tinybars(h, 0)),
       BadBase64}
PaymentHandlers == {"hedera_payment", "card_payment"}

Create ==
  /\ \E i \in 1..Len(IdSequence) :
       LET id == IdSequence[i] IN
       /\ ~sessions[id].exists
       /\ \A j \in 1..(i - 1) : sessions[IdSequence[j]].exists
       /\ \E request \in CreateRequests :
            LET line_items == request.line_items
                currency == request.currency
                key == ""
            IN
            IF ValidCreate(line_items, currency)
            THEN /\ sessions' = [sessions EXCEPT ![id] = Created(id, line_items, currency)]
                 /\ last_reply' = Reply("create", id, key, FALSE, "ok", "",
                                        Created(id, line_items, currency))
            ELSE /\ last_reply' = Reply("create", "", key, FALSE, "ValidationError",
                                        "", NoSession)
                 /\ UNCHANGED sessions
  /\ UNCHANGED <<svcVars, scriptVars, callVars, inflight, idempotency, req, issued, submitted>>

\* the idempotency keys a client may send: one it has used, or a new one
\* (keys are opaque, so the new one is the first unused key)
UsedKeys ==
  {e.key : e \in idempotency} \cup {req[w].key : w \in {x \in Workers : req[x].pc # "idle"}}
RequestKeys ==
  UsedKeys \cup
    {KeySequence[i] : i \in {n \in 1..Len(KeySequence) :
                              /\ KeySequence[n] \notin UsedKeys
                              /\ \A j \in 1..(n - 1) : KeySequence[j] \in UsedKeys}}

\* the pool hands a request to its first idle worker
FirstIdle(w) ==
  /\ req[w].pc = "idle"
  /\ \A i \in 1..Len(WorkerSequence) :
       WorkerSequence[i] = w => \A j \in 1..(i - 1) : req[WorkerSequence[j]].pc # "idle"

\* a request is answered without entering the region's work
Answer(reply) ==
  /\ last_reply' = reply
  /\ issued' = issued + 1
  /\ UNCHANGED <<sessions, inflight, idempotency, req, submitted>>

UpdateBegin(w) ==
  /\ FirstIdle(w)
  /\ issued < MaxRequests
  /\ \E id \in SessionIds, key \in RequestKeys, patch \in Patches :
       LET s == sessions[id]
       IN  IF ~s.exists
           THEN Answer(Reply("update", id, key, FALSE, "NotFound", "", NoSession))
           ELSE /\ RegionFree(id)
                /\ IF Stored(id, key) # {}
                   THEN Answer(Replay("update", id, key))
                   ELSE IF ~Mutable(s)
                   THEN Answer(Reply("update", id, key, FALSE, "Conflict", "", NoSession))
                   ELSE IF ~ValidUpdate(s, patch)
                   THEN Answer(Reply("update", id, key, FALSE, "ValidationError", "",
                                     NoSession))
                   ELSE /\ req' = [req EXCEPT ![w] =
                               [pc |-> "update", op |-> "update", id |-> id,
                                key |-> key, next |-> Updated(s, patch),
                                patch |-> patch, credential |-> BadBase64]]
                        /\ inflight' = [inflight EXCEPT ![id] = w]
                        /\ issued' = issued + 1
                        /\ UNCHANGED <<sessions, idempotency, submitted, last_reply>>
  /\ UNCHANGED <<svcVars, scriptVars, callVars>>

\* leave the region of session id, if w holds it
Release(w, id) ==
  inflight' = [inflight EXCEPT ![id] = IF inflight[id] = w THEN "none" ELSE @]

UpdateCommit(w) ==
  /\ req[w].pc = "update"
  /\ LET r == req[w]
         reply == Reply("update", r.id, r.key, FALSE, "ok", "", r.next)
     IN  /\ sessions' = [sessions EXCEPT ![r.id] = r.next]
         /\ idempotency' = Remember(reply)
         /\ last_reply' = reply
         /\ Release(w, r.id)
  /\ req' = [req EXCEPT ![w] = IdleRequest]
  /\ UNCHANGED <<svcVars, scriptVars, callVars, issued, submitted>>

CompleteBegin(w) ==
  /\ FirstIdle(w)
  /\ issued < MaxRequests
  /\ \E id \in SessionIds, key \in RequestKeys, handler \in PaymentHandlers :
       LET s == sessions[id]
       IN  IF ~s.exists
           THEN Answer(Reply("complete", id, key, FALSE, "NotFound", "", NoSession))
           ELSE /\ RegionFree(id)
                /\ IF Stored(id, key) # {}
                   THEN Answer(Replay("complete", id, key))
                   ELSE IF ~Mutable(s)
                   THEN Answer(Reply("complete", id, key, FALSE, "Conflict", "",
                                     NoSession))
                   ELSE IF handler # "hedera_payment"
                   THEN Answer(Reply("complete", id, key, FALSE, "ValidationError",
                                     "", NoSession))
                   ELSE /\ \E credential \in PaymentCredentials(s) :
                             req' = [req EXCEPT ![w] =
                               [pc |-> "pay", op |-> "complete", id |-> id,
                                key |-> key, next |-> s, patch |-> NoPatch,
                                credential |-> credential]]
                        /\ inflight' = [inflight EXCEPT ![id] = w]
                        /\ issued' = issued + 1
                        /\ UNCHANGED <<sessions, idempotency, submitted, last_reply>>
  /\ UNCHANGED <<svcVars, scriptVars, callVars>>

\* Complete calls process_pre_signed_payment with the working copy's total;
\* the method is synchronous, the service runs one call at a time
CompleteSettle(w) ==
  /\ req[w].pc = "pay"
  /\ pc = "idle"
  /\ req' = [req EXCEPT ![w].pc = "settle"]
  /\ signed_transaction_base64' = req[w].credential
  /\ expected_amount_hbar' = amount_hbar_of(Last(req[w].next.totals))
  /\ pc' = "decode"
  /\ UNCHANGED <<tx_bytes, transaction, response, receipt, outcome, steps, executed>>
  /\ UNCHANGED <<svcVars, scriptVars, sessions, inflight, idempotency, issued, submitted,
                 last_reply>>

CompleteCommit(w) ==
  /\ req[w].pc = "settle"
  /\ pc = "done"
  /\ LET r == req[w]
         after == Completed(r.next, outcome)
         reply == IF outcome.kind = "return"
                  THEN Reply("complete", r.id, r.key, FALSE, "ok", "", after)
                  ELSE Reply("complete", r.id, r.key, FALSE, SettlementError(outcome),
                             outcome.status, after)
     IN  /\ sessions' = [sessions EXCEPT ![r.id] = after]
         /\ idempotency' = Remember(reply)
         /\ last_reply' = reply
         /\ submitted' = [submitted EXCEPT ![r.id] = @ + executed]
         /\ Release(w, r.id)
  /\ req' = [req EXCEPT ![w] = IdleRequest]
  /\ pc' = "idle"
  /\ signed_transaction_base64' = BadBase64
  /\ expected_amount_hbar' = 0
  /\ tx_bytes' = None
  /\ transaction' = None
  /\ response' = None
  /\ receipt' = None
  /\ outcome' = Pending
  /\ steps' = <<>>
  /\ executed' = 0
  /\ UNCHANGED <<svcVars, scriptVars, issued>>

\* what ends a settlement from outside the pipeline of the payment service:
\* the client's timeout or cancellation, and a failure that is none of the
\* classified ones
Aborts == {"Timeout", "Unclassified"}

\* the settlement of worker w's Complete is ended while its ledger submission
\* is in flight: the session is left FAILED, with the reason surfaced
CompleteAbort(w) ==
  /\ req[w].pc = "settle"
  /\ pc \in {"execute", "receipt"}
  /\ \E reason \in Aborts :
       LET r == req[w]
           o == Raise("Aborted", reason, "")
           after == Completed(r.next, o)
           reply == Reply("complete", r.id, r.key, FALSE, SettlementError(o),
                          reason, after)
       IN  /\ sessions' = [sessions EXCEPT ![r.id] = after]
           /\ idempotency' = Remember(reply)
           /\ last_reply' = reply
           /\ submitted' = [submitted EXCEPT ![r.id] = @ + executed]
           /\ Release(w, r.id)
  /\ req' = [req EXCEPT ![w] = IdleRequest]
  /\ pc' = "idle"
  /\ signed_transaction_base64' = BadBase64
  /\ expected_amount_hbar' = 0
  /\ tx_bytes' = None
  /\ transaction' = None
  /\ response' = None
  /\ receipt' = None
  /\ outcome' = Pending
  /\ steps' = <<>>
  /\ executed' = 0
  /\ UNCHANGED <<svcVars, scriptVars, issued>>

InitCheckout ==
  /\ Init
  /\ merchant_account_id = "0.0.1001"
  /\ network_name = "testnet"

NextCheckout ==
  \/ Create
  \/ \E w \in Workers : UpdateBegin(w)
  \/ \E w \in Workers : UpdateCommit(w)
  \/ \E w \in Workers : CompleteBegin(w)
  \/ \E w \in Workers : CompleteSettle(w)
  \/ Decode
  \/ Parse
  \/ CheckKind
  \/ Validate
  \/ Execute
  \/ GetReceipt
  \/ CheckReceipt
  \/ \E w \in Workers : CompleteCommit(w)
  \/ \E w \in Workers : CompleteAbort(w)

SpecCheckout == InitCheckout /\ [][NextCheckout]_vars

\* the steps of a settlement under way: the payment service runs its method
\* body to the end, and the handler commits what it returns or raises
Settling ==
  \/ Decode
  \/ Parse
  \/ CheckKind
  \/ Validate
  \/ Execute
  \/ GetReceipt
  \/ CheckReceipt
  \/ \E w \in Workers : CompleteCommit(w)

\* every call of the library returns or raises, and a Complete waiting for
\* the payment service gets it once it is free
SpecCheckoutFair ==
  /\ SpecCheckout
  /\ WF_vars(Settling)
  /\ \A w \in Workers : WF_vars(CompleteSettle(w))

(***************************************************************************)
(* The client of the happy path: main() makes one call after the other,    *)
(* each with the headers of get_headers, and waits for each reply.         *)
(***************************************************************************)
\* get_headers: a new idempotency key for every call
ClientKey == "key_" \o ToString(issued)

\* STEP 1: the client creates its one checkout session
ClientCreate ==
  /\ \A id \in SessionIds : ~sessions[id].exists
  /\ Create

\* STEPS 2-6: an Update of the session, from the request to the reply
ClientUpdate ==
  /\ issued < MaxSteps
  /\ \E id \in SessionIds, patch \in Patches :
       LET s == sessions[id]
           key == ClientKey
           reply == Reply("update", id, key, FALSE, "ok", "", Updated(s, patch))
       IN  /\ s.exists
           /\ RegionFree(id)
           /\ IF Stored(id, key) # {}
              THEN Answer(Replay("update", id, key))
              ELSE IF ~Mutable(s)
              THEN Answer(Reply("update", id, key, FALSE, "Conflict", "", NoSession))
              ELSE IF ~ValidUpdate(s, patch)
              THEN Answer(Reply("update", id, key, FALSE, "ValidationError", "",
                                NoSession))
              ELSE /\ sessions' = [sessions EXCEPT ![id] = Updated(s, patch)]
                   /\ idempotency' = Remember(reply)
                   /\ last_reply' = reply
                   /\ issued' = issued + 1
                   /\ UNCHANGED <<inflight, req, submitted>>
  /\ UNCHANGED <<svcVars, scriptVars, callVars>>

NextClient ==
  \/ ClientCreate
  \/ ClientUpdate

SpecClient == InitCheckout /\ [][NextClient]_vars

(***************************************************************************)
(* setup.py: main(), one action per step.  The commands it runs (uv) and   *)
(* the user at the prompts are the environment.                            *)
(***************************************************************************)
\* main() returns `code`
SetupReturn(code) ==
  /\ setup_pc' = "done"
  /\ exit_code' = code

\* the script is started, in a checkout whose .env files are absent, left by
\* an earlier run of the script, or written by hand (lines 116-129: without
\* the server directory it returns 1)
SetupMain ==
  /\ setup_pc = "idle"
  /\ \E server_dir_exists \in BOOLEAN,
        s \in OldEnvFiles \cup {server_env}, c \in OldEnvFiles \cup {client_env} :
       /\ server_dir_exists \/ s = Absent
       /\ server_env' = s
       /\ client_env' = c
       /\ env_before' = [server |-> s, client |-> c]
       /\ IF server_dir_exists
          THEN setup_pc' = "uv" /\ UNCHANGED exit_code
          ELSE SetupReturn(1)
  /\ UNCHANGED <<overwrite, account_id, private_key, rewritten>>
  /\ UNCHANGED <<svcVars, callVars, ckVars, clientVars, amountVars, testVars>>

\* Step 1: check_uv()
SetupCheckUv ==
  /\ setup_pc = "uv"
  /\ \E installed \in BOOLEAN :
       IF installed THEN setup_pc' = "sync_server" /\ UNCHANGED exit_code
       ELSE SetupReturn(1)
  /\ UNCHANGED <<server_env, client_env, overwrite, account_id, private_key,
                 env_before, rewritten>>
  /\ UNCHANGED <<svcVars, callVars, ckVars, clientVars, amountVars, testVars>>

\* Steps 2 and 3: run_command(["uv", "sync"]) in the server directory, then
\* in the client's
SetupSync ==
  /\ setup_pc \in {"sync_server", "sync_client"}
  /\ \E ran \in BOOLEAN :
       IF ran
       THEN /\ setup_pc' = IF setup_pc = "sync_server" THEN "sync_client"
                           ELSE "database"
            /\ UNCHANGED exit_code
       ELSE SetupReturn(1)
  /\ UNCHANGED <<server_env, client_env, overwrite, account_id, private_key,
                 env_before, rewritten>>
  /\ UNCHANGED <<svcVars, callVars, ckVars, clientVars, amountVars, testVars>>

\* Step 4: the database import; its failure is a warning, the run goes on
SetupDatabase ==
  /\ setup_pc = "database"
  /\ setup_pc' = "env"
  /\ UNCHANGED <<server_env, client_env, overwrite, account_id, private_key,
                 exit_code, env_before, rewritten>>
  /\ UNCHANGED <<svcVars, callVars, ckVars, clientVars, amountVars, testVars>>

\* get_hedera_credentials(): two prompts, each answer stripped
get_hedera_credentials ==
  \E id \in TypedAccounts, key \in TypedKeys :
    /\ account_id' = strip(id)
    /\ private_key' = strip(key)

\* Step 5, lines 172-182: the overwrite question when both files exist, and
\* the credentials
SetupCredentials ==
  /\ setup_pc = "env"
  /\ IF server_env # Absent /\ client_env # Absent
     THEN \E typed \in TypedAnswers :
            /\ overwrite' = lower(strip(typed))
            /\ IF overwrite' # "y"
               THEN account_id' = PyNone /\ private_key' = PyNone
               ELSE get_hedera_credentials
     ELSE /\ get_hedera_credentials
          /\ UNCHANGED overwrite
  /\ setup_pc' = "write"
  /\ UNCHANGED <<server_env, client_env, exit_code, env_before, rewritten>>
  /\ UNCHANGED <<svcVars, callVars, ckVars, clientVars, amountVars, testVars>>

\* `if account_id and private_key`: neither is None or empty
truthy(text) == text \notin {PyNone, ""}

\* create_env_file(server_env, ...) and create_env_file(client_env, ...)
create_env_files(id, key) ==
  /\ server_env' = env_content(id, key)
  /\ client_env' = env_content(id, key)
  /\ rewritten' = {"server", "client"}

\* lines 184-194 and the return of line 222
SetupWrite ==
  /\ setup_pc = "write"
  /\ IF truthy(account_id) /\ truthy(private_key)
     THEN create_env_files(account_id, private_key)
     ELSE IF server_env = Absent
     THEN create_env_files("0.0.YOUR_ACCOUNT_ID", "0xYOUR_ECDSA_KEY")
     ELSE UNCHANGED <<server_env, client_env, rewritten>>
  /\ SetupReturn(0)
  /\ UNCHANGED <<overwrite, account_id, private_key, env_before>>
  /\ UNCHANGED <<svcVars, callVars, ckVars, clientVars, amountVars, testVars>>

\* the process is over; the files stay
SetupExit ==
  /\ setup_pc = "done"
  /\ setup_pc' = "idle"
  /\ overwrite' = Unbound
  /\ account_id' = Unbound
  /\ private_key' = Unbound
  /\ exit_code' = NotExited
  /\ env_before' = [server |-> Absent, client |-> Absent]
  /\ rewritten' = {}
  /\ UNCHANGED <<server_env, client_env>>
  /\ UNCHANGED <<svcVars, callVars, ckVars, clientVars, amountVars, testVars>>

NextSetup ==
  \/ SetupMain
  \/ SetupCheckUv
  \/ SetupSync
  \/ SetupDatabase
  \/ SetupCredentials
  \/ SetupWrite
  \/ SetupExit

SpecSetup == InitCheckout /\ [][NextSetup]_vars

(***************************************************************************)
(* simple_happy_path_client.py: main(), one action per step.  The server   *)
(* that answers is the environment.                                        *)
(***************************************************************************)
\* main() is over: it returned early, an exception reached the handler of
\* line 1011, or the last line was reached
End(how) ==
  /\ client_pc' = "done"
  /\ ended' = how

\* one mutating request and its answer: fresh headers, the request sent
Request(op, step, drawn, reply) ==
  /\ headers' = get_headers(uuids + drawn)
  /\ uuids' = uuids + drawn + 2
  /\ sent' = Append(sent, [op |-> op, step |-> step, headers |-> headers',
                           status |-> reply.status])

\* lines 282-306: the arguments; without customer credentials main() returns
MainStart ==
  /\ client_pc = "idle"
  /\ \E account \in CustomerAccounts :
       /\ hedera_customer_account' = account
       /\ hedera_network' = network_name
       /\ IF account = "" THEN End("returned")
          ELSE client_pc' = "step0" /\ UNCHANGED ended
  /\ UNCHANGED <<hedera_merchant_account, supported_handlers, checkout_data,
                 trigger_req, headers, uuids, sent, client_credential, client_network>>
  /\ UNCHANGED <<svcVars, callVars, ckVars, setupVars, amountVars, testVars>>

\* Step 0, lines 330-376
Step0Discovery ==
  /\ client_pc = "step0"
  /\ \E status \in Statuses, handlers \in HandlerLists :
       IF status # 200
       THEN /\ End("returned")
            /\ UNCHANGED <<supported_handlers, hedera_merchant_account>>
       ELSE /\ supported_handlers' = handlers
            /\ hedera_merchant_account' = get_hedera_merchant_account(handlers)
            /\ IF ~truthy(hedera_merchant_account') THEN End("returned")
               ELSE client_pc' = "step1" /\ UNCHANGED ended
  /\ UNCHANGED <<hedera_customer_account, hedera_network, checkout_data,
                 trigger_req, headers, uuids, sent, client_credential, client_network>>
  /\ UNCHANGED <<svcVars, callVars, ckVars, setupVars, amountVars, testVars>>

\* Step 1, lines 380-472: Create; the body is parsed before the status is
\* looked at, and the totals are read after it
Step1Create ==
  /\ client_pc = "step1"
  /\ \E reply \in ServerReplies :
       /\ Request("Create", "create", 0, reply)
       /\ IF reply.body.kind = "text"
          THEN End("raised") /\ UNCHANGED checkout_data
          ELSE /\ checkout_data' = reply.body
               /\ IF reply.status \notin {200, 201} THEN End("returned")
                  ELSE IF reply.body.kind # "checkout" THEN End("raised")
                  ELSE client_pc' = "step2" /\ UNCHANGED ended
  /\ UNCHANGED <<hedera_customer_account, hedera_network, hedera_merchant_account,
                 supported_handlers, trigger_req, client_credential, client_network>>
  /\ UNCHANGED <<svcVars, callVars, ckVars, setupVars, amountVars, testVars>>

\* Step 2, lines 476-565: the Update that adds the second item
Step2AddItems ==
  /\ client_pc = "step2"
  /\ \E reply \in ServerReplies :
       /\ Request("Update", "items", 0, reply)
       /\ IF reply.body.kind = "text"
          THEN End("raised") /\ UNCHANGED checkout_data
          ELSE /\ checkout_data' = reply.body
               /\ IF reply.status # 200 THEN End("returned")
                  ELSE IF reply.body.kind # "checkout" THEN End("raised")
                  ELSE client_pc' = "step3" /\ UNCHANGED ended
  /\ UNCHANGED <<hedera_customer_account, hedera_network, hedera_merchant_account,
                 supported_handlers, trigger_req, client_credential, client_network>>
  /\ UNCHANGED <<svcVars, callVars, ckVars, setupVars, amountVars, testVars>>

\* Step 3, lines 569-669: the Update that applies the discount; the status is
\* looked at before the body is parsed
Step3Discount ==
  /\ client_pc = "step3"
  /\ \E reply \in ServerReplies :
       /\ Request("Update", "discount", 0, reply)
       /\ IF reply.status # 200
          THEN End("returned") /\ UNCHANGED checkout_data
          ELSE IF reply.body.kind = "text"
          THEN End("raised") /\ UNCHANGED checkout_data
          ELSE /\ checkout_data' = reply.body
               /\ IF reply.body.kind # "checkout" THEN End("raised")
                  ELSE client_pc' = "step4" /\ UNCHANGED ended
  /\ UNCHANGED <<hedera_customer_account, hedera_network, hedera_merchant_account,
                 supported_handlers, trigger_req, client_credential, client_network>>
  /\ UNCHANGED <<svcVars, callVars, ckVars, setupVars, amountVars, testVars>>

\* Step 4, lines 681-792: without fulfillment methods in checkout_data, the
\* Update that asks for them; its body becomes checkout_data whatever the
\* status (line 742), and a status other than 200 is logged as a warning
Step4Trigger ==
  /\ client_pc = "step4"
  /\ ~checkout_data.fulfillment.methods
  /\ trigger_req' = TRUE
  /\ \E reply \in ServerReplies :
       /\ Request("Update", "trigger", 0, reply)
       /\ IF reply.body.kind = "text"
          THEN End("raised") /\ UNCHANGED checkout_data
          ELSE /\ checkout_data' = reply.body
               /\ client_pc' = "step5"
               /\ UNCHANGED ended
  /\ UNCHANGED <<hedera_customer_account, hedera_network, hedera_merchant_account,
                 supported_handlers, client_credential, client_network>>
  /\ UNCHANGED <<svcVars, callVars, ckVars, setupVars, amountVars, testVars>>

\* lines 681 and 794-799 when nothing is sent: the methods are there already
\* (no trigger), or there is no destination to select (on to Step 7);
\* selecting a destination without the trigger having run reads trigger_req
\* unbound
StepNoRequest ==
  /\ \/ /\ client_pc = "step4"
        /\ checkout_data.fulfillment.methods
        /\ client_pc' = "step5"
        /\ UNCHANGED ended
     \/ /\ client_pc = "step5"
        /\ ~checkout_data.fulfillment.destinations
        /\ client_pc' = "step7"
        /\ UNCHANGED ended
     \/ /\ client_pc = "step5"
        /\ checkout_data.fulfillment.destinations
        /\ ~trigger_req
        /\ End("raised")
  /\ UNCHANGED <<hedera_customer_account, hedera_network, hedera_merchant_account,
                 supported_handlers, checkout_data, trigger_req, headers, uuids,
                 sent, client_credential, client_network>>
  /\ UNCHANGED <<svcVars, callVars, ckVars, setupVars, amountVars, testVars>>

\* Step 5, lines 794-847: the Update that selects the destination
Step5Destination ==
  /\ client_pc = "step5"
  /\ checkout_data.fulfillment.destinations
  /\ trigger_req
  /\ \E reply \in ServerReplies :
       /\ Request("Update", "destination", 0, reply)
       /\ IF reply.status # 200
          THEN End("returned") /\ UNCHANGED checkout_data
          ELSE IF reply.body.kind = "text"
          THEN End("raised") /\ UNCHANGED checkout_data
          ELSE /\ checkout_data' = reply.body
               /\ IF ~reply.body.fulfillment.methods THEN End("raised")
                  ELSE /\ client_pc' = IF reply.body.fulfillment.options
                                       THEN "step6" ELSE "step7"
                       /\ UNCHANGED ended
  /\ UNCHANGED <<hedera_customer_account, hedera_network, hedera_merchant_account,
                 supported_handlers, trigger_req, client_credential, client_network>>
  /\ UNCHANGED <<svcVars, callVars, ckVars, setupVars, amountVars, testVars>>

\* Step 6 going on after a refusal, as Step 4 does
Step6OptionWarning ==
  /\ client_pc = "step6"
  /\ \E reply \in ServerReplies :
       /\ Request("Update", "option", 0, reply)
       /\ IF reply.body.kind = "text"
          THEN End("raised") /\ UNCHANGED checkout_data
          ELSE /\ checkout_data' = reply.body
               /\ IF reply.body.kind # "checkout" THEN End("raised")
                  ELSE client_pc' = "step7" /\ UNCHANGED ended
  /\ UNCHANGED <<hedera_customer_account, hedera_network, hedera_merchant_account,
                 supported_handlers, trigger_req, client_credential, client_network>>
  /\ UNCHANGED <<svcVars, callVars, ckVars, setupVars, amountVars, testVars>>

\* Step 6, lines 849-899: the Update that selects the option
Step6Option ==
  /\ client_pc = "step6"
  /\ \E reply \in ServerReplies :
       /\ Request("Update", "option", 0, reply)
       /\ IF reply.status # 200
          THEN End("returned") /\ UNCHANGED checkout_data
          ELSE IF reply.body.kind = "text"
          THEN End("raised") /\ UNCHANGED checkout_data
          ELSE /\ checkout_data' = reply.body
               /\ IF reply.body.kind # "checkout" THEN End("raised")
                  ELSE client_pc' = "step7" /\ UNCHANGED ended
  /\ UNCHANGED <<hedera_customer_account, hedera_network, hedera_merchant_account,
                 supported_handlers, trigger_req, client_credential, client_network>>
  /\ UNCHANGED <<svcVars, callVars, ckVars, setupVars, amountVars, testVars>>

\* `any(h.get("name") == "com.hedera.hbar" for h in supported_handlers)`
supports_hedera(handlers) ==
  \E i \in 1..Len(handlers) : handlers[i].name = "com.hedera.hbar"

\* Step 7 up to the request, lines 907-933, when no request is sent: no
\* handler, or checkout_data without totals
Step7Abort ==
  /\ client_pc = "step7"
  /\ \/ ~supports_hedera(supported_handlers) /\ End("returned")
     \/ /\ supports_hedera(supported_handlers)
        /\ checkout_data.kind # "checkout"
        /\ End("raised")
  /\ UNCHANGED <<hedera_customer_account, hedera_network, hedera_merchant_account,
                 supported_handlers, checkout_data, trigger_req, headers, uuids,
                 sent, client_credential, client_network>>
  /\ UNCHANGED <<svcVars, callVars, ckVars, setupVars, amountVars, testVars>>

\* Step 7, lines 907-1009: the payment is built and signed, and Complete is
\* sent (one uuid goes into the instrument id before the headers are made)
Step7Complete ==
  /\ client_pc = "step7"
  /\ supports_hedera(supported_handlers)
  /\ checkout_data.kind = "checkout"
  /\ client_network' = client_network_of(hedera_network)
  /\ \E rule \in SameAccountRules :
       client_credential' =
         b64encode(to_bytes(
           transfer_tx(hedera_customer_account, hedera_merchant_account,
                       Tinybars(amount_hbar_of(checkout_data.total), 0), rule)))
  /\ \E reply \in ServerReplies :
       /\ Request("Complete", "complete", 1, reply)
       /\ IF reply.body.kind = "text" THEN End("raised")
          ELSE IF reply.status # 200 THEN End("returned")
          ELSE IF reply.body.kind # "checkout" THEN End("raised")
          ELSE End("completed")
  /\ UNCHANGED <<hedera_customer_account, hedera_network, hedera_merchant_account,
                 supported_handlers, checkout_data, trigger_req>>
  /\ UNCHANGED <<svcVars, callVars, ckVars, setupVars, amountVars, testVars>>

\* the process is over
MainExit ==
  /\ client_pc = "done"
  /\ client_pc' = "idle"
  /\ ended' = "running"
  /\ hedera_customer_account' = Unbound
  /\ hedera_network' = Unbound
  /\ hedera_merchant_account' = Unbound
  /\ supported_handlers' = <<>>
  /\ checkout_data' = NoBody
  /\ trigger_req' = FALSE
  /\ headers' = NoHeaders
  /\ uuids' = 0
  /\ sent' = <<>>
  /\ client_credential' = None
  /\ client_network' = Unbound
  /\ UNCHANGED <<svcVars, callVars, ckVars, setupVars, amountVars, testVars>>

NextHappyPath ==
  \/ MainStart
  \/ Step0Discovery
  \/ Step1Create
  \/ Step2AddItems
  \/ Step3Discount
  \/ Step4Trigger
  \/ StepNoRequest
  \/ Step5Destination
  \/ Step6Option
  \/ Step7Abort
  \/ Step7Complete
  \/ MainExit

\* the server is configured (Init), and the client runs against it
SpecHappyPath == Init /\ [][NextHappyPath]_vars

(***************************************************************************)
(* The amount test of _validate_transaction on tinybar amounts: the        *)
(* expected amount reaches the service as a float of HBAR                  *)
(***************************************************************************)
\* the integers E up to 64 for which int((E / 1e8) * 1e8) is E - 1 in
\* binary64 arithmetic (for every other E up to 64 it is E)
TruncatedLow == {3, 6, 12, 24, 29, 48, 58, 59}

\* how Hbar(x) turns a float of HBAR into tinybars, the library's choice:
\* through the decimal text of x, or int(x * 100_000_000) as the client's
\* create_hedera_payment does
HbarConversions == {"decimal", "truncate"}

\* Hbar(expected_amount_hbar), for the float nearest to expected / 10^8
HbarOfFloat(expected, conversion) ==
  IF conversion = "truncate" /\ expected \in TruncatedLow
  THEN [tinybars |-> <<0, expected - 1>>]
  ELSE [tinybars |-> <<0, expected>>]

\* lines 168-175 of _validate_transaction
validate_amount(actual, expected, conversion) ==
  LET actual_hbar == to_hbar(<<0, actual>>)
      expected_hbar == HbarOfFloat(expected, conversion)
  IN  IF HbarLess(actual_hbar, expected_hbar) THEN "Insufficient amount"
      ELSE "ok"

\* a transfer with a merchant leg arrives for an expected amount
QuoteAmounts ==
  /\ amount_verdict' = "none"
  /\ \E expected \in 0..MaxTinybars, actual \in 0..MaxTinybars :
       /\ expected_tinybars' = expected
       /\ actual_tinybars' = actual
  /\ UNCHANGED <<svcVars, callVars, ckVars, setupVars, clientVars, testVars>>

\* the amount test runs
ValidateAmount ==
  /\ amount_verdict = "none"
  /\ \E conversion \in HbarConversions :
       amount_verdict' = validate_amount(actual_tinybars, expected_tinybars, conversion)
  /\ UNCHANGED <<expected_tinybars, actual_tinybars>>
  /\ UNCHANGED <<svcVars, callVars, ckVars, setupVars, clientVars, testVars>>

NextAmounts ==
  \/ QuoteAmounts
  \/ ValidateAmount

SpecAmounts == InitCheckout /\ [][NextAmounts]_vars

(***************************************************************************)
(* test_hedera_payment.py: main(), one action per step.  The user at the   *)
(* prompts, the environment variables and the ledger are the environment.  *)
(***************************************************************************)
\* AMOUNT_HBAR = 1 * (10**8): one HBAR, in tinybars
AMOUNT_HBAR == Tinybars(1, 0)

\* EXPLORER_URLS
EXPLORER_URLS ==
  [name \in {"mainnet", "testnet", "previewnet"} |->
     IF name = "mainnet" THEN "https://hashscan.io/mainnet"
     ELSE IF name = "testnet" THEN "https://hashscan.io/testnet"
     ELSE "https://hashscan.io/previewnet"]

\* a lookup that falls back to the mainnet base
explorer_base_mainnet(name) ==
  IF name \in DOMAIN EXPLORER_URLS THEN EXPLORER_URLS[name]
  ELSE EXPLORER_URLS["mainnet"]

\* EXPLORER_URLS.get(network_name, EXPLORER_URLS["testnet"])
explorer_base(name) ==
  IF name \in DOMAIN EXPLORER_URLS THEN EXPLORER_URLS[name]
  ELSE EXPLORER_URLS["testnet"]

\* line 188: f"{base_url}/transaction/{receipt.transaction_id}"
tx_url_of(name, transaction_id) ==
  explorer_base(name) \o "/transaction/" \o transaction_id

\* a test that takes every answer but n for a yes
should_submit_unless_no(answer) == lower(strip(answer)) # "n"

\* line 271: user_response.strip().lower() == "y"
should_submit(answer) == lower(strip(answer)) = "y"

\* sys.exit(code), or main() returning (code 0)
TestEnd(code) ==
  /\ test_pc' = "done"
  /\ test_exit' = code

\* lines 215-237: the imports, the .env file of the server directory, the
\* network name and the merchant account
TestMain ==
  /\ test_pc = "idle"
  /\ test_network' = network_name
  /\ \E sdk_installed \in BOOLEAN, merchant_set \in BOOLEAN :
       IF sdk_installed /\ merchant_set
       THEN test_pc' = "accounts" /\ UNCHANGED test_exit
       ELSE TestEnd(1)
  /\ UNCHANGED <<customer_account_str, test_transaction, user_response,
                 test_executed, printed, tx_url>>
  /\ UNCHANGED <<svcVars, callVars, ckVars, setupVars, clientVars, amountVars>>

\* lines 239-254: the customer account (from the environment, typed, or the
\* merchant's as the fallback), the private key (required), and parse_accounts
TestAccounts ==
  /\ test_pc = "accounts"
  /\ \E customer \in {CustomerAccount, merchant_account_id},
        key_given \in BOOLEAN, parsed \in BOOLEAN :
       /\ customer_account_str' = customer
       /\ IF key_given /\ parsed
          THEN test_pc' = "prepare" /\ UNCHANGED test_exit
          ELSE TestEnd(1)
  /\ UNCHANGED <<test_network, test_transaction, user_response, test_executed,
                 printed, tx_url>>
  /\ UNCHANGED <<svcVars, callVars, ckVars, setupVars, clientVars, amountVars>>

\* lines 261-267: create_client, create_transaction and encode_transaction;
\* an exception in one of them ends the run with code 1
TestPrepare ==
  /\ test_pc = "prepare"
  /\ \E built \in BOOLEAN, rule \in SameAccountRules :
       IF built
       THEN /\ test_transaction' =
                 transfer_tx(customer_account_str, merchant_account_id,
                             AMOUNT_HBAR, rule)
            /\ printed' = printed \cup {"Signed transaction"}
            /\ test_pc' = "ask"
            /\ UNCHANGED test_exit
       ELSE /\ TestEnd(1)
            /\ UNCHANGED <<test_transaction, printed>>
  /\ UNCHANGED <<test_network, customer_account_str, user_response,
                 test_executed, tx_url>>
  /\ UNCHANGED <<svcVars, callVars, ckVars, setupVars, clientVars, amountVars>>

\* lines 269-277: the submit question
TestAsk ==
  /\ test_pc = "ask"
  /\ \E typed \in TypedAnswers :
       /\ user_response' = typed
       /\ IF should_submit(typed)
          THEN test_pc' = "submit" /\ UNCHANGED printed
          ELSE /\ test_pc' = "next_steps"
               /\ printed' = printed \cup {"Transaction not submitted"}
  /\ UNCHANGED <<test_network, customer_account_str, test_transaction,
                 test_executed, tx_url, test_exit>>
  /\ UNCHANGED <<svcVars, callVars, ckVars, setupVars, clientVars, amountVars>>

\* submit_transaction, lines 171-194: execute raises (exit 1), or gives a
\* receipt; a success prints the explorer URL
TestSubmit ==
  /\ test_pc = "submit"
  /\ test_executed' = test_executed + 1
  /\ \E raised \in BOOLEAN, status \in ReceiptStatuses, id \in TransactionIds :
       IF raised
       THEN /\ TestEnd(1)
            /\ printed' = printed \cup {"Error submitting transaction"}
            /\ UNCHANGED tx_url
       ELSE /\ test_pc' = "next_steps"
            /\ UNCHANGED test_exit
            /\ IF status = "SUCCESS"
               THEN /\ tx_url' = tx_url_of(test_network, id)
                    /\ printed' = printed \cup {"Payment successful!"}
               ELSE /\ printed' = printed \cup {"Transaction failed"}
                    /\ UNCHANGED tx_url
  /\ UNCHANGED <<test_network, customer_account_str, test_transaction,
                 user_response>>
  /\ UNCHANGED <<svcVars, callVars, ckVars, setupVars, clientVars, amountVars>>

\* print_next_steps(), line 279, and the end of main()
TestNextSteps ==
  /\ test_pc = "next_steps"
  /\ printed' = printed \cup {"Next steps"}
  /\ TestEnd(0)
  /\ UNCHANGED <<test_network, customer_account_str, test_transaction,
                 user_response, test_executed, tx_url>>
  /\ UNCHANGED <<svcVars, callVars, ckVars, setupVars, clientVars, amountVars>>

\* the process is over
TestExit ==
  /\ test_pc = "done"
  /\ test_pc' = "idle"
  /\ test_network' = Unbound
  /\ customer_account_str' = Unbound
  /\ test_transaction' = None
  /\ user_response' = Unbound
  /\ test_executed' = 0
  /\ printed' = {}
  /\ tx_url' = ""
  /\ test_exit' = NotExited
  /\ UNCHANGED <<svcVars, callVars, ckVars, setupVars, clientVars, amountVars>>

NextTestScript ==
  \/ TestMain
  \/ TestAccounts
  \/ TestPrepare
  \/ TestAsk
  \/ TestSubmit
  \/ TestNextSteps
  \/ TestExit

\* the server directory is configured (Init), and the script runs in it
SpecTestScript == Init /\ [][NextTestScript]_vars

(***************************************************************************)
(* Properties of the settlement service                                    *)
(***************************************************************************)
Passed(step) == \E i \in 1..Len(steps) : steps[i] = step
Raised(message) == outcome.kind \in {"ValueError", "Exception"} /\ outcome.message = message

\* the validator has run in this call: step 3 was passed and step 4 is over
ValidatorRan == Passed("kind") /\ pc # "validate"

\* the legs of the decoded transfer that pay the configured merchant
MerchantLegs == {x \in transaction.hbar_transfers : x[1] = merchant_account_id}

\* leg < h whole HBAR, as integers: w * 10^8 + f < h * 10^8 iff w < h
LegBelow(leg, h) == leg[1] < h

C2_RecipientCheck ==
  ValidatorRan =>
    /\ MerchantLegs = {} <=> Raised("No transfer to merchant account")
    /\ MerchantLegs = {} => ~Raised("Insufficient amount") /\ ~Passed("validate")

\* a sufficient payment to another account than the merchant's: refused
C2_Witness ==
  /\ pc = "done"
  /\ expected_amount_hbar >= 1
  /\ Passed("kind")
  /\ MerchantLegs = {}
  /\ \E x \in transaction.hbar_transfers :
       x[1] \in MerchantAccounts /\ ~LegBelow(x[2], expected_amount_hbar)
  /\ Raised("No transfer to merchant account")

\* C3: the transaction is submitted (transaction.execute) only after the
\* credential was decoded and parsed, was found to be a transfer and was
\* accepted by the validator; a call that fails in steps 1-4 submits nothing.
C3_NoSubmissionBeforeValidation ==
  /\ executed > 0 =>
       /\ Len(steps) >= 4
       /\ SubSeq(steps, 1, 4) = <<"decode", "parse", "kind", "validate">>
       /\ signed_transaction_base64.padding = "ok"
       /\ signed_transaction_base64.data.format = "protobuf"
       /\ signed_transaction_base64.data.tx.type = "TransferTransaction"
       /\ transaction = signed_transaction_base64.data.tx
       /\ MerchantLegs # {}
       /\ \A x \in MerchantLegs : ~LegBelow(x[2], expected_amount_hbar)
  /\ outcome.kind = "ValueError" => executed = 0

\* a validated transfer has been submitted
C3_Witness ==
  /\ executed = 1
  /\ pc = "receipt"
  /\ expected_amount_hbar >= 1

\* C4: the call returns a result only when the receipt status is exactly
\* SUCCESS; with any other status, known or not, it ends in an exception and
\* returns nothing.
C4_FailClosedReceipt ==
  /\ outcome.kind = "return" => Passed("receipt") /\ receipt.status = "SUCCESS"
  /\ (pc = "done" /\ Passed("receipt") /\ receipt.status # "SUCCESS") =>
       /\ outcome.kind = "Exception"
       /\ outcome.message = "Transaction failed with status"
       /\ outcome.status = receipt.status
       /\ outcome.result = None

\* a receipt with a status that is no known failure, and is not SUCCESS
C4_Witness ==
  /\ pc = "done"
  /\ Passed("receipt")
  /\ receipt.status = "OK"
  /\ outcome.kind = "Exception"

(***************************************************************************)
(* Properties of the checkout handler                                      *)
(***************************************************************************)
\* the replies the store holds for a key against a session
Known(id, key) == {e \in idempotency : e.id = id /\ e.key = key}

\* this step ends worker w's Complete, or its Update, with a commit
CompleteEnds(w) == req[w].pc = "settle" /\ req'[w].pc = "idle"
UpdateEnds(w) == req[w].pc = "update" /\ req'[w].pc = "idle"

\* this step answers a request `op` against session `id` without entering
\* the session's region
AnsweredAtOnce(op, id) ==
  /\ issued' = issued + 1
  /\ req' = req
  /\ last_reply'.op = op
  /\ last_reply'.id = id

\* the reply of this step is the one the store holds for its key
RepliesAsStored(e) ==
  /\ last_reply'.code = e.code
  /\ last_reply'.detail = e.detail
  /\ last_reply'.session = e.session

\* the credential of worker w's Complete is a signed transfer whose merchant
\* leg is below the expected amount of its session
ShortLeg(w) ==
  LET c == req[w].credential
      expected == amount_hbar_of(Last(sessions[req[w].id].totals))
  IN  /\ c.padding = "ok"
      /\ c.data.format = "protobuf"
      /\ c.data.tx.type = "TransferTransaction"
      /\ \E x \in c.data.tx.hbar_transfers :
           x[1] = merchant_account_id /\ LegBelow(x[2], expected)

\* C5: a Complete whose signed transfer pays the merchant less than the
\* session's expected amount ends with AmountTooLow, nothing submitted, the
\* session FAILED, its order absent, its totals and line items as before.
C5_FailedCompletion ==
  [][\A w \in Workers :
       (CompleteEnds(w) /\ ShortLeg(w)) =>
         LET id == req[w].id
         IN  /\ last_reply'.op = "complete"
             /\ last_reply'.id = id
             /\ last_reply'.code = "AmountTooLow"
             /\ last_reply'.session = sessions'[id]
             /\ executed = 0
             /\ sessions'[id].status = "FAILED"
             /\ sessions'[id].order = NoOrder
             /\ sessions'[id].totals = sessions[id].totals
             /\ sessions'[id].line_items = sessions[id].line_items]_vars

\* a Complete one tinybar short was answered AmountTooLow
C5_Witness ==
  /\ last_reply.op = "complete"
  /\ last_reply.code = "AmountTooLow"
  /\ ~last_reply.replayed
  /\ \E id \in SessionIds :
       /\ last_reply.id = id
       /\ sessions[id].status = "FAILED"
       /\ ~sessions[id].order.present

\* the order of a session is populated exactly when the session is COMPLETED
OrderIffCompleted ==
  \A id \in SessionIds :
    sessions[id].exists =>
      /\ sessions[id].status = "COMPLETED" <=> sessions[id].order.present
      /\ sessions[id].order.present =>
           /\ sessions[id].order.permalink_url # ""
           /\ sessions[id].order.transaction_id # ""
      /\ ~sessions[id].order.present => sessions[id].order = NoOrder

\* C6: a session is COMPLETED if and only if its order is populated (permalink
\* and ledger transaction id), and a session becomes COMPLETED only in the
\* commit of a Complete whose settlement call passed validation for the
\* session's amount, submitted once and got a SUCCESS receipt.
C6_SuccessfulCompletion ==
  /\ []OrderIffCompleted
  /\ [][\A id \in SessionIds :
          (sessions[id].status # "COMPLETED" /\ sessions'[id].status = "COMPLETED") =>
            /\ \E w \in Workers : CompleteEnds(w) /\ req[w].id = id
            /\ pc = "done"
            /\ outcome.kind = "return"
            /\ Passed("validate")
            /\ Passed("receipt")
            /\ receipt.status = "SUCCESS"
            /\ executed = 1
            /\ expected_amount_hbar = amount_hbar_of(Last(sessions[id].totals))
            /\ MerchantLegs # {}
            /\ \A x \in MerchantLegs : ~LegBelow(x[2], expected_amount_hbar)
            /\ sessions'[id].order.transaction_id = response.transaction_id]_vars

\* a session was completed, its order carries the ledger transaction id
C6_Witness ==
  \E id \in SessionIds :
    /\ sessions[id].status = "COMPLETED"
    /\ sessions[id].order.present
    /\ sessions[id].order.transaction_id \in TransactionIds
    /\ submitted[id] = 1

\* the submissions to the ledger made for a session, the one of a settlement
\* in progress included
Submissions(id) ==
  submitted[id]
    + (IF \E w \in Workers : req[w].pc = "settle" /\ req[w].id = id
       THEN executed ELSE 0)

\* C7: a Complete repeated with the idempotency key of an earlier Complete
\* against the same session is answered with the reply kept for that key,
\* runs no settlement and changes nothing; over all calls the transaction of
\* a session is submitted to the ledger at most once.
C7_NoDoubleSettlement ==
  /\ [](\A id \in SessionIds : Submissions(id) <= 1)
  /\ [][\A id \in SessionIds :
          \A e \in {x \in idempotency : x.id = id /\ x.op = "complete"} :
            (AnsweredAtOnce("complete", id) /\ last_reply'.key = e.key) =>
              /\ RepliesAsStored(e)
              /\ UNCHANGED <<sessions, submitted, idempotency, inflight, callVars>>]_vars

\* a paid Complete was repeated with its key, and answered from the store
C7_Witness ==
  /\ last_reply.op = "complete"
  /\ last_reply.replayed
  /\ last_reply.code = "ok"
  /\ last_reply.session.status = "COMPLETED"
  /\ submitted[last_reply.id] = 1

\* C8: an Update repeated with the idempotency key of an earlier Update
\* against the same session is answered with the reply given the first time,
\* and leaves the session, the length of its totals included, as it was; the
\* reply kept for a key is the first one and is never replaced.
C8_IdempotentUpdateReplay ==
  [][/\ \A id \in SessionIds :
          \A e \in {x \in idempotency : x.id = id /\ x.op = "update"} :
            (AnsweredAtOnce("update", id) /\ last_reply'.key = e.key) =>
              /\ RepliesAsStored(e)
              /\ Len(sessions'[id].totals) = Len(sessions[id].totals)
              /\ sessions'[id].discounts = sessions[id].discounts
              /\ UNCHANGED <<sessions, idempotency>>
     /\ idempotency \subseteq idempotency'
     /\ \A w \in Workers :
          UpdateEnds(w) =>
            \E e \in Known(req[w].id, req[w].key) \cup
                      (idempotency' \ idempotency) :
              /\ e.id = req[w].id
              /\ e.key = req[w].key
              /\ RepliesAsStored(e)]_vars

\* an Update with a discount code was repeated with its key: one snapshot was
\* appended, not two
C8_Witness ==
  /\ last_reply.op = "update"
  /\ last_reply.replayed
  /\ last_reply.code = "ok"
  /\ last_reply.session.discounts # {}
  /\ last_reply.session = sessions[last_reply.id]
  /\ Len(sessions[last_reply.id].totals) = 2

\* C9 as stated: once a session is COMPLETED or FAILED it never changes, and
\* every later Update or Complete against it is rejected with Conflict.
C9_Original ==
  [][\A id \in SessionIds :
       sessions[id].status \in TerminalStatuses =>
         /\ sessions'[id] = sessions[id]
         /\ \A op \in {"update", "complete"} :
              AnsweredAtOnce(op, id) => last_reply'.code = "Conflict"]_vars

\* C9: once a session is COMPLETED or FAILED it never changes and no mutation
\* enters its region; every later Update or Complete against it is answered
\* at once, with Conflict, or, when it repeats an idempotency key already
\* answered for the session, with the reply kept for that key.
C9_TerminalImmutable ==
  [][\A id \in SessionIds :
       sessions[id].status \in TerminalStatuses =>
         /\ sessions'[id] = sessions[id]
         /\ inflight[id] = "none" /\ inflight'[id] = "none"
         /\ \A w \in Workers : req'[w].pc # "idle" => req'[w].id # id
         /\ \A op \in {"update", "complete"} :
              AnsweredAtOnce(op, id) =>
                IF Known(id, last_reply'.key) = {}
                THEN last_reply'.code = "Conflict" /\ ~last_reply'.replayed
                ELSE \E e \in Known(id, last_reply'.key) : RepliesAsStored(e)]_vars

\* a request with a new key against a terminal session was rejected
C9_Witness ==
  /\ last_reply.code = "Conflict"
  /\ last_reply.op \in {"update", "complete"}
  /\ sessions[last_reply.id].status \in TerminalStatuses
  /\ Known(last_reply.id, last_reply.key) = {}

\* the mutations of session id in flight
InFlight(id) == {w \in Workers : req[w].pc # "idle" /\ req[w].id = id}

\* the accepted updates of session id
Accepted(id) == {e \in idempotency : e.id = id /\ e.op = "update" /\ e.code = "ok"}

\* a mutation of session id can enter the session's region now
CanBegin(id) ==
  \E w \in Workers :
    \/ ENABLED (UpdateBegin(w) /\ inflight'[id] = w)
    \/ ENABLED (CompleteBegin(w) /\ inflight'[id] = w)

WellDefined(id) ==
  LET s == sessions[id]
  IN  /\ s.status \in MutableStatuses \cup TerminalStatuses
      /\ s.status # "COMPLETED" => s.order = NoOrder
      /\ s.status = "COMPLETED" => s.order.present
      /\ \A w \in Workers :
           (req[w].pc \in {"pay", "settle"} /\ req[w].id = id) =>
             s = req[w].next /\ s.status \in MutableStatuses

\* this step ends worker w's settlement from outside the payment service
AbortEnds(w) == CompleteEnds(w) /\ pc # "done"

Before(id) == sessions[id].totals
After(id) == sessions'[id].totals

\* this step commits an accepted Update of session id
UpdateCommitted(id) == \E w \in Workers : UpdateEnds(w) /\ req[w].id = id

\* C12: the totals of a session never shrink and no entry of them changes;
\* the commit of an accepted Update appends exactly one snapshot, and every
\* other step (a rejected or replayed call, a Complete, paid or failed, a
\* Create of another session) appends none; a new session starts with one.
C12_TotalsAppendOnly ==
  [][\A id \in SessionIds :
       IF sessions[id].exists
       THEN /\ sessions'[id].exists
            /\ Len(After(id)) >= Len(Before(id))
            /\ SubSeq(After(id), 1, Len(Before(id))) = Before(id)
            /\ UpdateCommitted(id) => Len(After(id)) = Len(Before(id)) + 1
            /\ ~UpdateCommitted(id) => After(id) = Before(id)
       ELSE sessions'[id].exists => Len(After(id)) = 1]_vars

\* a session with an accepted update and a failed Complete behind it keeps
\* its two snapshots
C12_Witness ==
  \E id \in SessionIds :
    /\ Len(sessions[id].totals) = 2
    /\ sessions[id].status = "FAILED"
    /\ sessions[id].totals[1] # sessions[id].totals[2]

\* the sum over the lines of price times quantity
LineSum(line_items) ==
  LET n == Len(line_items)
      upto[i \in 0..n] ==
        IF i = 0 THEN 0
        ELSE upto[i - 1] + Price(line_items[i].item) * line_items[i].quantity
  IN  upto[n]

\* this step creates session id
Creates(id) == ~sessions[id].exists /\ sessions'[id].exists

\* C13: a Create makes a session exactly when its request has line items and
\* a currency; the session then is OPEN, carries the request's line items
\* and currency, no discount and no fulfillment, and its one totals entry is
\* the sum over the line items of price times quantity.
C13_InitialTotals ==
  [][\A id \in SessionIds :
       Creates(id) =>
         LET s == sessions'[id]
         IN  /\ s.line_items # <<>>
             /\ s.currency # ""
             /\ s.status = "OPEN"
             /\ s.discounts = {}
             /\ s.fulfillment = NoFulfillment
             /\ s.totals = <<LineSum(s.line_items)>>
             /\ last_reply'.op = "create"
             /\ last_reply'.code = "ok"
             /\ last_reply'.session = s]_vars

\* a session created with one bouquet and two pots: 1000 + 2 * 500
C13_Witness ==
  /\ last_reply.op = "create"
  /\ last_reply.code = "ok"
  /\ last_reply.session.line_items = RosesAndPots
  /\ last_reply.session.status = "OPEN"
  /\ last_reply.session.totals = <<2000>>

\* the session has this cart, this set of discount codes and this option
Cart(s, line_items, codes, option) ==
  /\ s.line_items = line_items
  /\ s.discounts = codes
  /\ s.fulfillment.option = option

\* C14: the last total of a session is its line-item sum, less the discount
\* on that sum, plus the price of the selected fulfillment option: 1000 for
\* the bouquet, 2000 with two pots, 1800 with 10OFF applied, still 1800 with
\* a destination and no option, 2100 with the option priced 300.
C14_TotalsFollowCart ==
  \A id \in SessionIds :
    sessions[id].exists =>
      LET s == sessions[id]
          total == Last(s.totals)
      IN  /\ total = LineSum(s.line_items)
                       - (LineSum(s.line_items)
                            * (IF "10OFF" \in s.discounts THEN 10 ELSE 0)) \div 100
                       + (IF s.fulfillment.option = "std" THEN 300 ELSE 0)
          /\ Cart(s, Roses, {}, "none") => total = 1000
          /\ Cart(s, RosesAndPots, {}, "none") => total = 2000
          /\ Cart(s, RosesAndPots, {"10OFF"}, "none") => total = 1800
          /\ Cart(s, RosesAndPots, {"10OFF"}, "std") => total = 2100

\* the happy path of the client, step by step
C14_Witness ==
  \E id \in SessionIds :
    /\ sessions[id].totals = <<1000, 2000, 1800, 1800, 1800, 2100>>
    /\ sessions[id].status = "READY"

\* the patch selects a destination for the method, and no option
SelectsDestination(patch) ==
  /\ patch.fulfillment.present
  /\ patch.fulfillment.destination # "none"
  /\ patch.fulfillment.option = "none"

\* the discount on the line items of session s
Discount(s) ==
  (LineSum(s.line_items) * (IF "10OFF" \in s.discounts THEN 10 ELSE 0)) \div 100

OptionGroups(fulfillment) ==
  IF fulfillment.destination # "none" THEN {"std"} ELSE {}

\* the hierarchy of a fulfillment: method, then destination, then option
Hierarchical(fulfillment) ==
  /\ fulfillment.destination # "none" => fulfillment.method
  /\ OptionGroups(fulfillment) # {} => fulfillment.destination # "none"
  /\ fulfillment.option # "none" =>
       /\ fulfillment.destination # "none"
       /\ fulfillment.option \in OptionGroups(fulfillment)

Replies == last_reply' # last_reply \/ (issued' # issued /\ req' = req)

Failed == outcome.kind \in {"ValueError", "Exception"}

\* C18: within one call the transaction is submitted at most once, from the
\* one execute of step 5; a call that has failed stays failed, with the same
\* exception, until it is over; a failure of execute, of get_receipt or of
\* the receipt test ends the call there, without another submission.
C18_NoInternalRetry ==
  /\ [](/\ executed <= 1
        /\ Failed => pc = "done"
        /\ executed = 1 <=>
             \/ Passed("execute")
             \/ pc = "done" /\ Passed("validate") /\ Raised("Hedera network error"))
  /\ [][/\ executed' > executed =>
             /\ pc = "execute"
             /\ executed = 0
             /\ executed' = 1
        /\ Failed => (outcome' = outcome /\ executed' = executed) \/ pc' = "idle"
        /\ (pc = "receipt" \/ pc = "status") =>
             /\ pc' \in {"status", "done"}
             /\ executed' = executed]_vars

\* the transfer was submitted, the receipt query failed, the call ended
C18_Witness ==
  /\ pc = "done"
  /\ executed = 1
  /\ Passed("execute")
  /\ ~Passed("receipt")
  /\ Raised("Hedera network error")

\* the credential of the call, as far as it can be taken apart
Decodable == signed_transaction_base64.padding = "ok"
Parsable == Decodable /\ signed_transaction_base64.data.format = "protobuf"
IsTransfer ==
  Parsable /\ signed_transaction_base64.data.tx.type = "TransferTransaction"
PaysMerchant ==
  /\ IsTransfer
  /\ \E x \in signed_transaction_base64.data.tx.hbar_transfers :
       x[1] = merchant_account_id

\* C19: a finished call fails with the exception of the first step that
\* fails: "Invalid base64 encoding" or "Invalid transaction bytes" (both
\* MalformedCredential) for a credential that cannot be decoded or parsed,
\* whatever it holds; "Expected TransferTransaction"
\* (UnsupportedTransactionKind) for another kind of transaction; "No transfer
\* to merchant account" (RecipientMismatch), never "Insufficient amount"
\* (AmountTooLow), for a transfer without a merchant leg; and a call that
\* fails validation fails with a ValueError, nothing submitted.
C19_EarliestFailure ==
  pc = "done" =>
    /\ ~Decodable <=> Raised("Invalid base64 encoding")
    /\ (Decodable /\ ~Parsable) <=> Raised("Invalid transaction bytes")
    /\ (Parsable /\ ~IsTransfer) <=> Raised("Expected TransferTransaction")
    /\ (IsTransfer /\ ~PaysMerchant) <=> Raised("No transfer to merchant account")
    /\ Raised("Insufficient amount") => PaysMerchant
    /\ ~(Decodable /\ Parsable /\ IsTransfer /\ PaysMerchant
           /\ ~Raised("Insufficient amount")) =>
         /\ outcome.kind = "ValueError"
         /\ executed = 0
         /\ ~Passed("validate")
    /\ outcome.kind = "ValueError" => executed = 0 /\ ~Passed("validate")

\* a transaction of another kind was refused as such, its transfers not
\* looked at
C19_Witness ==
  /\ pc = "done"
  /\ Parsable
  /\ transaction.type = "AccountCreateTransaction"
  /\ Raised("Expected TransferTransaction")
  /\ steps = <<"decode", "parse">>

\* C20: a finished call that failed after validation failed with an
\* Exception that is no ValueError: "Hedera network error"
\* (NetworkSubmissionError) when execute or get_receipt raised, "Transaction
\* failed with status" (SettlementRejected) with the receipt's status when
\* the receipt is not SUCCESS; a call that failed before submission failed
\* with a ValueError (the client-attributable failures).
C20_LedgerFailuresDistinct ==
  (pc = "done" /\ Failed) =>
    /\ outcome.kind = "ValueError" <=> ~Passed("validate")
    /\ outcome.kind = "Exception" <=> Passed("validate")
    /\ Raised("Hedera network error") <=> (Passed("validate") /\ ~Passed("receipt"))
    /\ Raised("Transaction failed with status") <=> Passed("receipt")
    /\ Raised("Transaction failed with status") =>
         /\ receipt.status # "SUCCESS"
         /\ outcome.status = receipt.status
         /\ executed = 1
    /\ Raised("Hedera network error") => outcome.status = ""
    /\ outcome.kind = "ValueError" =>
         outcome.message \in {"Invalid base64 encoding", "Invalid transaction bytes",
                              "Expected TransferTransaction",
                              "No transfer to merchant account", "Insufficient amount"}

\* the ledger refused the transfer: the exception names the receipt's status
C20_Witness ==
  /\ pc = "done"
  /\ Raised("Transaction failed with status")
  /\ outcome.status = "INSUFFICIENT_PAYER_BALANCE"
  /\ executed = 1

\* what a caller sees of a failed call: the exception's type, its message with
\* the text of the exception it was raised from, and that exception
Surfaced(o) ==
  <<o.kind, o.message, IF o.cause = None THEN "" ELSE o.cause.text, o.cause>>

C23_SettlementResult ==
  outcome.kind = "return" =>
    LET result == outcome.result
    IN  /\ executed = 1
        /\ Passed("execute")
        /\ receipt.status = "SUCCESS"
        /\ result.transaction_id = signed_transaction_base64.data.tx.transaction_id
        /\ result.transaction_id = response.transaction_id
        /\ result.status = "SUCCESS"
        /\ result.network = network_name
        /\ receipt.timestamp = None <=> result.timestamp = None
        /\ receipt.timestamp # None =>
             result.timestamp = [str |-> "1700000003.500000000"]
        /\ result.explorer_url =
             <<<<"https://hashscan.io/",
                 IF network_name \in {"mainnet", "previewnet"} THEN network_name
                 ELSE "testnet">>,
               "/transaction/", result.transaction_id>>

\* a settlement on mainnet, with a receipt that has a timestamp
C23_Witness ==
  /\ pc = "done"
  /\ outcome.kind = "return"
  /\ network_name = "mainnet"
  /\ outcome.result.timestamp # None
  /\ outcome.result.explorer_url[1][2] = "mainnet"

\* the validator's contract: Validate(transfer, expectedRecipient,
\* expectedMinAmount), the amount in whole HBAR
Verdict(transfer, recipient, min_hbar) ==
  LET legs == {x \in transfer.hbar_transfers : x[1] = recipient}
  IN  IF legs = {} THEN "RecipientMismatch"
      ELSE IF \E x \in legs : LegBelow(x[2], min_hbar) THEN "AmountTooLow"
      ELSE "Ok"

\* this step is the run of the validator in a call of the service
Validates == pc = "validate" /\ pc' # "validate"

\* C24: the outcome of a validation is a function of the transfer, the
\* expected recipient and the expected amount alone (the same three give the
\* same outcome, whatever else the state holds), and a validation changes
\* neither the transfer nor the expected amount, neither the merchant account
\* nor the network name, no stored session, no reply kept, no request in
\* flight, and submits nothing.
C24_ValidatorPure ==
  [][Validates =>
       LET verdict == Verdict(transaction, merchant_account_id, expected_amount_hbar)
       IN  /\ verdict = "Ok" <=> (pc' = "execute" /\ outcome' = outcome)
           /\ verdict = "AmountTooLow" <=>
                (pc' = "done" /\ outcome' = Raise("ValueError", "Insufficient amount", ""))
           /\ verdict = "RecipientMismatch" <=>
                (pc' = "done"
                   /\ outcome' = Raise("ValueError", "No transfer to merchant account", ""))
           /\ transaction' = transaction
           /\ expected_amount_hbar' = expected_amount_hbar
           /\ signed_transaction_base64' = signed_transaction_base64
           /\ merchant_account_id' = merchant_account_id
           /\ network_name' = network_name
           /\ sessions' = sessions
           /\ idempotency' = idempotency
           /\ req' = req
           /\ inflight' = inflight
           /\ executed' = executed /\ executed = 0]_vars

\* the validator has accepted the transfer of a Complete: the session it
\* pays for is stored as it was, the transfer still has its two legs
C24_Witness ==
  /\ pc = "execute"
  /\ Passed("validate")
  /\ Cardinality(transaction.hbar_transfers) = 2
  /\ \E w \in Workers :
       /\ req[w].pc = "settle"
       /\ sessions[req[w].id].status \in MutableStatuses
       /\ expected_amount_hbar = amount_hbar_of(Last(sessions[req[w].id].totals))

(***************************************************************************)
(* Properties of setup.py                                                  *)
(***************************************************************************)
\* the run is over, and main() returned 0
SetupSucceeded == setup_pc = "done" /\ exit_code = 0

\* C26 as stated: whenever main() returns 0, server/.env and
\* client/flower_shop/.env both exist, whatever files the run found and
\* whatever the user typed.
C26_EnvFilesCreated ==
  SetupSucceeded => server_env # Absent /\ client_env # Absent

\* the file, as the run found it and as it is now
EnvBefore(file) == env_before[file]

\* C29 as stated: a .env file that existed before the run is rewritten only
\* if the user was asked the overwrite question and answered y.
C29_NoSilentOverwrite ==
  \A file \in rewritten :
    EnvBefore(file) # Absent => overwrite = "y"

(***************************************************************************)
(* Properties of the happy-path client                                     *)
(***************************************************************************)
Requests == 1..Len(sent)

\* C25: every mutating request the client sends (Create, each Update,
\* Complete) carries an idempotency key and a request id, and no two
\* requests of one run carry the same idempotency key.
C25_FreshIdempotencyKeys ==
  \A i \in Requests :
    /\ sent[i].op \in {"Create", "Update", "Complete"}
    /\ sent[i].headers.idempotency_key # ""
    /\ sent[i].headers.request_id # ""
    /\ \A j \in Requests :
         i # j => sent[i].headers.idempotency_key # sent[j].headers.idempotency_key

\* a run that sent Create, Updates and Complete
C25_Witness ==
  /\ Len(sent) >= 4
  /\ sent[1].op = "Create"
  /\ sent[Len(sent)].op = "Complete"

\* the status the client takes for a success: 200 or 201 for Create, 200 for
\* an Update
Succeeded(request) ==
  IF request.op = "Create" THEN request.status \in {200, 201}
  ELSE request.status = 200

\* a request was sent after discovery gave a com.hedera.hbar handler with a
\* merchant account
Discovered ==
  sent # <<>> =>
    supports_hedera(supported_handlers) /\ truthy(hedera_merchant_account)

\* C27 as stated: Complete is sent only after a discovery with a
\* com.hedera.hbar handler that has a merchant account, and after a Create and
\* Updates that all succeeded, the fulfillment-trigger Update included.
C27_Original ==
  /\ Discovered
  /\ \A i \in Requests :
       sent[i].op = "Complete" => \A j \in 1..(i - 1) : Succeeded(sent[j])

\* C27, amended: a request is sent only after a discovery with a
\* com.hedera.hbar handler that has a merchant account, and only after
\* requests that all succeeded, except that the fulfillment-trigger Update
\* may have failed: its failure does not end the run.
C27_CompleteAfterSuccess ==
  /\ Discovered
  /\ \A i \in Requests :
       \A j \in 1..(i - 1) : sent[j].step # "trigger" => Succeeded(sent[j])

\* Complete was sent in a run whose trigger Update had failed
C27_Witness ==
  \E i, j \in Requests :
    /\ i < j
    /\ sent[i].step = "trigger"
    /\ ~Succeeded(sent[i])
    /\ sent[j].op = "Complete"

\* the payment has been built and signed
Signed == client_credential # None

\* C28 as stated: for every value of the HEDERA_NETWORK setting, the network
\* the client builds and signs its transfer for is the network the server
\* submits to and the network of the explorer URL the server builds.
C28_SameNetwork ==
  Signed =>
    /\ client_network = network_name
    /\ base_url_of(network_name)[2] = client_network

\* C30 as stated: the transfer the client signs has exactly a customer leg of
\* -A and a merchant leg of +A tinybars, A being the amount computed from the
\* last totals entry, so the merchant leg the validator finds is A.
C30_BalancedTransfer ==
  Signed =>
    LET transfers == client_credential.data.tx.hbar_transfers
        A == Tinybars(amount_hbar_of(checkout_data.total), 0)
    IN  /\ transfers = {<<hedera_customer_account, Negate(A)>>,
                        <<hedera_merchant_account, A>>}
        /\ Cardinality(transfers) = 2
        /\ merchant_transfer_of(transfers, hedera_merchant_account) = {A}

(***************************************************************************)
(* Properties of the amount test                                           *)
(***************************************************************************)
\* C22 as stated: for every pair of integer tinybar amounts, the validator
\* accepts exactly when actual >= expected holds of the integers.
C22_IntegerComparison ==
  amount_verdict # "none" =>
    (amount_verdict = "ok" <=> actual_tinybars >= expected_tinybars)

(***************************************************************************)
(* Properties of test_hedera_payment.py                                    *)
(***************************************************************************)
\* the answers that are a y, in any case and with spaces around it
YesAnswers == {"y", " Y "}

\* the submit question has been answered
Answered == user_response # Unbound

\* C31: the script calls execute only if the answer to the submit question
\* was y (any case, spaces around it ignored), and at most once; after every
\* other answer, the empty one included, nothing is submitted and the run
\* ends with the next steps printed.
C31_SubmitOnlyOnYes ==
  /\ test_executed > 0 => Answered /\ user_response \in YesAnswers
  /\ test_executed <= 1
  /\ test_pc = "submit" => user_response \in YesAnswers
  /\ Answered /\ user_response \notin YesAnswers =>
       /\ test_executed = 0
       /\ test_pc \in {"next_steps", "done"}
       /\ "Transaction not submitted" \in printed
       /\ test_pc = "done" => "Next steps" \in printed /\ test_exit = 0

\* a run that was answered with the empty input has ended
C31_Witness ==
  /\ test_pc = "done"
  /\ user_response = ""
  /\ "Next steps" \in printed

\* the text of the URL the service builds
url_text(url) == url[1][1] \o url[1][2] \o url[2] \o url[3]

\* C32: the URL the script prints is https://hashscan.io/<network>/transaction/<id>
\* for mainnet, testnet and previewnet and the testnet URL for every other
\* network name, and it is the URL the service builds for the same network
\* name and transaction id.
C32_ExplorerUrl ==
  tx_url # "" =>
    \E id \in TransactionIds :
      /\ tx_url = url_text(_get_explorer_url(test_network, id))
      /\ tx_url =
           "https://hashscan.io/"
             \o (IF test_network \in {"mainnet", "testnet", "previewnet"}
                 THEN test_network ELSE "testnet")
             \o "/transaction/" \o id

\* the script printed a URL for a network name that is none of the three
C32_Witness ==
  /\ tx_url # ""
  /\ test_network = "localnet"
  /\ "Payment successful!" \in printed

(***************************************************************************)
(* The configuration of a service instance                                 *)
(***************************************************************************)
\* C33: no step of a call of process_pre_signed_payment, from its start to
\* its return or its exception, and no step between two calls, changes the
\* merchant account id or the network name that __init__ has set: all calls
\* of one service instance are validated against one merchant account.
C33_ConfigurationReadOnly ==
  [][/\ merchant_account_id' = merchant_account_id
     /\ network_name' = network_name]_vars

\* a call for the second merchant account has ended with a rejection by
\* the validation, after the transfer was parsed
C33_Witness ==
  /\ pc = "done"
  /\ outcome.kind = "ValueError"
  /\ executed = 0
  /\ Passed("kind")
  /\ merchant_account_id = "0.0.3003"
  /\ network_name = "previewnet"

====
